---- MODULE Spec2Model ----
(***************************************************************************)
(* Verification model of the blockchain-monitor agent tools:               *)
(*   - utils.ts            isValidSolanaAddress                            *)
(*   - the IDL tool module (derive-pda-address, fetch-account-data, ...)   *)
(*   - the extended tool module (derive-pda-address with swallowed RPC     *)
(*     errors, fetch-pda-data, ...)                                        *)
(*   - anchor-program-monitor.ts (execute, fetchPdaData)                   *)
(*                                                                         *)
(* JavaScript strings are modelled as sequences of UTF-16 code units, each *)
(* code unit written as a one-character TLA+ string.  Buffers are          *)
(* sequences of bytes (0..255).                                            *)
(***************************************************************************)
EXTENDS Integers, Sequences, FiniteSets, TLC

VARIABLES
    candidate,      \* SpecAddr: the string handed to isValidSolanaAddress
    verdict,        \* SpecAddr: outcome of the call ("pending" before it)
    idl,            \* SpecSchema: the interface description under resolution
    accountName,    \* SpecSchema: the account-type name asked for
    fieldsOut,      \* SpecSchema: outcome of the resolution ("pending" before)
    pc,             \* Spec: position of the tool invocation in flight
    tool,           \* Spec: id of the tool being executed
    context,        \* Spec: the invocation's input (execute's context)
    locals,         \* Spec: the handler's local variables
    net,            \* Spec: network calls issued by this invocation, in order
    ret,            \* Spec: what the invocation handed to its caller
    earlier,        \* SpecDet: a remembered earlier derivation result
    callerSeeds,    \* Spec: the seed strings callers draw from
    history,        \* SpecTx: signatures the chain holds for an address, at most
    parked          \* SpecConc: the invocation suspended while another runs

vars == <<candidate, verdict, idl, accountName, fieldsOut,
          pc, tool, context, locals, net, ret, earlier, callerSeeds,
          history, parked>>

addrVars == <<candidate, verdict>>
schemaVars == <<idl, accountName, fieldsOut>>
toolVars == <<pc, tool, context, locals, net, ret, earlier, callerSeeds>>
concVars == <<history, parked>>

(***************************************************************************)
(* Bounds of the model.                                                    *)
(***************************************************************************)
MaxCandLen == 46    \* longest candidate address string tried
MaxSeeds == 2       \* longest seed list handed to a derivation tool

(***************************************************************************)
(* Strings and bytes.                                                      *)
(***************************************************************************)
Take(s, n) == IF n >= Len(s) THEN s ELSE SubSeq(s, 1, n)

Drop(s, n) == IF n >= Len(s) THEN <<>> ELSE SubSeq(s, n + 1, Len(s))

Reverse(s) == [i \in 1..Len(s) |-> s[Len(s) + 1 - i]]

Repeat(c, n) == [i \in 1..n |-> c]

SubstAt(s, k, c) == [i \in 1..Len(s) |-> IF i = k THEN c ELSE s[i]]

RECURSIVE Flatten(_)
Flatten(ss) == IF ss = <<>> THEN <<>> ELSE Head(ss) \o Flatten(Tail(ss))

RECURSIVE SumSeq(_)
SumSeq(s) == IF s = <<>> THEN 0 ELSE Head(s) + SumSeq(Tail(s))

\* The code units 0x20..0x7E, in code order; a unit's code is its index + 31.
\* The quote, backslash and backtick units are written by their code point.
AsciiVisible ==
    <<" ", "!", "U+0022", "#", "$", "%", "&", "'", "(", ")", "*", "+", ",", "-",
      ".", "/", "0", "1", "2", "3", "4", "5", "6", "7", "8", "9", ":", ";",
      "<", "=", ">", "?", "@", "A", "B", "C", "D", "E", "F", "G", "H", "I",
      "J", "K", "L", "M", "N", "O", "P", "Q", "R", "S", "T", "U", "V", "W",
      "X", "Y", "Z", "[", "U+005C", "]", "^", "_", "U+0060", "a", "b", "c", "d", "e",
      "f", "g", "h", "i", "j", "k", "l", "m", "n", "o", "p", "q", "r", "s",
      "t", "u", "v", "w", "x", "y", "z", "{", "|", "}", "~">>

\* One code unit outside ASCII (LATIN SMALL LETTER E WITH ACUTE).
EAcute == "U+00E9"

IsAscii(c) == \E i \in 1..Len(AsciiVisible) : AsciiVisible[i] = c

AsciiCode(c) == 31 + (CHOOSE i \in 1..Len(AsciiVisible) : AsciiVisible[i] = c)

\* Buffer.from(s, 'utf8'): one byte per ASCII unit, two for U+00E9.
Utf8Unit(c) == IF IsAscii(c) THEN <<AsciiCode(c)>> ELSE <<195, 169>>

BufferFromUtf8(s) == Flatten([i \in 1..Len(s) |-> Utf8Unit(s[i])])

HexDigits ==
    <<"0", "1", "2", "3", "4", "5", "6", "7", "8", "9",
      "a", "b", "c", "d", "e", "f">>

HexUpper == <<"A", "B", "C", "D", "E", "F">>

IsHexDigit(c) ==
    \/ \E i \in 1..16 : HexDigits[i] = c
    \/ \E i \in 1..6 : HexUpper[i] = c

HexValue(c) ==
    IF \E i \in 1..16 : HexDigits[i] = c
    THEN (CHOOSE i \in 1..16 : HexDigits[i] = c) - 1
    ELSE (CHOOSE i \in 1..6 : HexUpper[i] = c) + 9

\* Buffer.from(s, 'hex'): decodes pairs of hex digits from the left and stops
\* at the first pair that is incomplete or holds a non-hex character.
RECURSIVE BufferFromHex(_)
BufferFromHex(s) ==
    IF Len(s) < 2 \/ ~IsHexDigit(s[1]) \/ ~IsHexDigit(s[2])
    THEN <<>>
    ELSE <<16 * HexValue(s[1]) + HexValue(s[2])>> \o BufferFromHex(Drop(s, 2))

StartsWith0x(s) == Len(s) >= 2 /\ s[1] = "0" /\ s[2] = "x"

\* A well-formed hexadecimal string: even length, hex digits only.
WellFormedHex(s) ==
    /\ Len(s) % 2 = 0
    /\ \A i \in 1..Len(s) : IsHexDigit(s[i])

(***************************************************************************)
(* The strings callers pass as program ids, addresses and seeds.            *)
(***************************************************************************)
\* 32 bytes of 0xFF: the largest address, 44 characters.
AddrMax ==
    <<"J", "E", "K", "N", "V", "n", "k", "b", "o", "3", "j", "m", "a", "5",
      "n", "R", "E", "B", "B", "J", "C", "D", "o", "X", "F", "V", "e", "K",
      "k", "D", "5", "6", "V", "3", "x", "K", "r", "v", "R", "m", "W", "x",
      "F", "G">>

\* 2^256: 44 base-58 characters that decode to 33 bytes.
AddrOverflow == SubstAt(AddrMax, 44, "H")

\* 0x01 followed by 31 zero bytes: a 43-character address.
Addr43 ==
    <<"4", "u", "Q", "e", "V", "j", "5", "t", "q", "V", "i", "Q", "h", "7",
      "y", "W", "W", "G", "S", "t", "v", "k", "E", "G", "1", "Z", "m", "h",
      "x", "6", "u", "a", "s", "J", "t", "W", "C", "J", "z", "i", "o", "f",
      "M">>

\* 32 zero bytes (the system program): the shortest address, 32 characters.
AddrZero == Repeat("1", 32)

BadProgramId == <<"b", "a", "d">>

ProgramIds == {Addr43, AddrZero, AddrOverflow, BadProgramId}

SeedConfig == <<"c", "o", "n", "f", "i", "g">>
SeedHex == <<"0", "x", "a", "b">>
SeedHexOdd == <<"0", "x", "a", "b", "c">>
SeedHexBad == <<"0", "x", "z", "z">>
SeedHexEmpty == <<"0", "x">>
SeedAccent == <<"c", "o", EAcute>>
SeedLong == Repeat("1", 33)

SeedPool ==
    {SeedConfig, SeedHex, SeedHexOdd, SeedHexBad, SeedHexEmpty, SeedAccent,
     SeedLong, AddrZero, Addr43, <<>>}

DetSeedPool == {SeedConfig, SeedHex, AddrZero}

(***************************************************************************)
(* Base58 and PublicKey (the address codec primitives).                    *)
(***************************************************************************)
Base58Alphabet ==
    <<"1", "2", "3", "4", "5", "6", "7", "8", "9", "A", "B", "C", "D", "E",
      "F", "G", "H", "J", "K", "L", "M", "N", "P", "Q", "R", "S", "T", "U",
      "V", "W", "X", "Y", "Z", "a", "b", "c", "d", "e", "f", "g", "h", "i",
      "j", "k", "m", "n", "o", "p", "q", "r", "s", "t", "u", "v", "w", "x",
      "y", "z">>

IsBase58(c) == \E i \in 1..58 : Base58Alphabet[i] = c

Base58Digit(c) == (CHOOSE i \in 1..58 : Base58Alphabet[i] = c) - 1

\* le * 58 + carry on a little-endian byte sequence.
RECURSIVE MulAdd58(_, _)
MulAdd58(le, carry) ==
    IF le = <<>>
    THEN IF carry = 0 THEN <<>>
         ELSE <<carry % 256>> \o MulAdd58(<<>>, carry \div 256)
    ELSE LET v == le[1] * 58 + carry
         IN  <<v % 256>> \o MulAdd58(Tail(le), v \div 256)

RECURSIVE Base58Number(_, _)
Base58Number(s, le) ==
    IF s = <<>> THEN le
    ELSE Base58Number(Tail(s), MulAdd58(le, Base58Digit(Head(s))))

RECURSIVE LeadingOnes(_)
LeadingOnes(s) ==
    IF s = <<>> \/ Head(s) # "1" THEN 0 ELSE 1 + LeadingOnes(Tail(s))

\* bs58.decode: every leading "1" is a zero byte, the rest is a base-58
\* number written big-endian; a character outside the alphabet is an error.
Base58Decode(s) ==
    IF \E i \in 1..Len(s) : ~IsBase58(s[i])
    THEN [ok |-> FALSE, bytes |-> <<>>]
    ELSE LET z == LeadingOnes(s)
         IN  [ok |-> TRUE,
              bytes |-> Repeat(0, z) \o Reverse(Base58Number(Drop(s, z), <<>>))]

PUBLIC_KEY_LENGTH == 32

\* The decodings of the callers' strings, computed once.
DecodedStrings == [s \in ProgramIds \cup SeedPool |-> Base58Decode(s)]

bs58decode(s) ==
    IF s \in DOMAIN DecodedStrings THEN DecodedStrings[s] ELSE Base58Decode(s)

\* new PublicKey(text): throws unless the text decodes to exactly 32 bytes.
NewPublicKey(s) ==
    LET d == bs58decode(s)
    IN  IF d.ok /\ Len(d.bytes) = PUBLIC_KEY_LENGTH
        THEN [ok |-> TRUE, bytes |-> d.bytes]
        ELSE [ok |-> FALSE, bytes |-> <<>>]

(***************************************************************************)
(* utils.ts: isValidSolanaAddress.  The outcome records whether the call   *)
(* returned or threw, and the value returned.                              *)
(***************************************************************************)
MinAddressLength == 32
MaxAddressLength == 44

isValidSolanaAddressLoose(address) ==
    IF Len(address) = 0 \/ Len(address) < MinAddressLength + 1
        \/ Len(address) > MaxAddressLength
    THEN [threw |-> FALSE, value |-> FALSE]
    ELSE IF NewPublicKey(address).ok
         THEN [threw |-> FALSE, value |-> TRUE]
         ELSE [threw |-> FALSE, value |-> FALSE]

isValidSolanaAddressOutcome(address) ==
    IF Len(address) = 0 \/ Len(address) < MinAddressLength
        \/ Len(address) > MaxAddressLength
    THEN [threw |-> FALSE, value |-> FALSE]
    ELSE IF NewPublicKey(address).ok
         THEN [threw |-> FALSE, value |-> TRUE]
         ELSE [threw |-> FALSE, value |-> FALSE]   \* catch { return false }

isValidSolanaAddress(address) == isValidSolanaAddressOutcome(address).value

(***************************************************************************)
(* Candidate strings for the address validator.                            *)
(***************************************************************************)
CandidateBases == {Repeat("1", MaxCandLen), AddrMax, AddrOverflow, Addr43}

CandidatePool ==
    LET prefixes == {Take(b, n) : b \in CandidateBases, n \in 0..MaxCandLen}
    IN  prefixes
        \cup {SubstAt(p, 1, "0") : p \in prefixes \ {<<>>}}
        \cup {SubstAt(p, Len(p), "l") : p \in prefixes \ {<<>>}}

(***************************************************************************)
(* IDL documents.  A name is a string; a field is a name with a type       *)
(* descriptor.  An account declaration may lack its inline type            *)
(* (acc.type undefined), a shared type may lack a field list (an enum),    *)
(* and the IDL may lack its type table altogether.                         *)
(***************************************************************************)
MaxTypes == 2       \* longest shared type table

NameConfig == <<"C", "o", "n", "f", "i", "g">>
NameConfigLower == <<"c", "o", "n", "f", "i", "g">>
NameVault == <<"V", "a", "u", "l", "t">>

AccountNames == {NameConfig, NameVault}
TypeNames == {NameConfig, NameConfigLower, NameVault}

FieldOwner == [name |-> "owner", type |-> "pubkey"]
FieldBump == [name |-> "bump", type |-> "u8"]

FieldLists ==
    {<<>>, <<FieldOwner>>, <<FieldBump>>,
     <<FieldOwner, FieldBump>>, <<FieldBump, FieldOwner>>}

\* acc.type?.fields: hasFields is FALSE when the declaration has no inline type.
AccountDecls ==
    {[name |-> n, hasFields |-> h, fields |-> f] :
        n \in AccountNames, h \in BOOLEAN, f \in FieldLists}
    \ {d \in [name : AccountNames, hasFields : {FALSE},
              fields : FieldLists] : d.fields # <<>>}

\* t.type.fields: hasFields is FALSE for a type without a field list.
TypeDefs ==
    {[name |-> n, hasFields |-> h, fields |-> f] :
        n \in TypeNames, h \in BOOLEAN, f \in FieldLists}
    \ {d \in [name : TypeNames, hasFields : {FALSE},
              fields : FieldLists] : d.fields # <<>>}

RECURSIVE SeqsUpTo(_, _)
SeqsUpTo(S, n) ==
    IF n = 0 THEN {<<>>}
    ELSE LET shorter == SeqsUpTo(S, n - 1)
         IN  shorter \cup {Append(q, x) : q \in shorter, x \in S}

\* Type tables name every type once.
TypeTables ==
    {t \in SeqsUpTo(TypeDefs, MaxTypes) :
        \A i, j \in 1..Len(t) : t[i].name = t[j].name => i = j}

NoIdl == [present |-> FALSE, accounts |-> <<>>, hasTypes |-> FALSE, types |-> <<>>]

SchemaIdls ==
    {[present |-> TRUE, accounts |-> <<a>>, hasTypes |-> h, types |-> t] :
        a \in AccountDecls, h \in BOOLEAN, t \in TypeTables}
    \ {d \in [present : {TRUE}, accounts : {<<a>> : a \in AccountDecls},
              hasTypes : {FALSE}, types : TypeTables] : d.types # <<>>}

\* Array.prototype.find, given the callback's verdict on each element: the
\* index of the first element it accepts, 0 if it accepts none.
FindIndex(tests) ==
    IF \E i \in 1..Len(tests) : tests[i]
    THEN CHOOSE i \in 1..Len(tests) :
            tests[i] /\ \A j \in 1..(i - 1) : ~tests[j]
    ELSE 0

findTypeDef(d, name) ==
    LET k == FindIndex([i \in 1..Len(d.types) |-> d.types[i].name = name])
    IN  IF k = 0 THEN [found |-> FALSE, hasFields |-> FALSE, fields |-> <<>>]
        ELSE [found |-> TRUE, hasFields |-> d.types[k].hasFields,
              fields |-> d.types[k].fields]

getFieldsForAccountNoFallback(d, acc) == acc.fields

getFieldsForAccount(d, acc) ==
    LET fields == acc.fields        \* acc?.type?.fields || []
    IN  IF Len(fields) = 0 /\ d.hasTypes
        THEN LET typeDef == findTypeDef(d, acc.name)
             IN  IF typeDef.found /\ typeDef.hasFields
                 THEN typeDef.fields
                 ELSE fields
        ELSE fields

\* get-account-details, lines 209-215: the handler's own copy of the fallback.
accountDetailsFields(d, accountStruct) ==
    LET fields == accountStruct.fields      \* accountStruct.type?.fields || []
    IN  IF Len(fields) = 0 /\ d.hasTypes
        THEN LET typeDef == findTypeDef(d, accountStruct.name)
             IN  IF typeDef.found /\ typeDef.hasFields
                 THEN typeDef.fields
                 ELSE fields
        ELSE fields

(***************************************************************************)
(* JavaScript values that appear in results.                               *)
(***************************************************************************)
JsNull == [kind |-> "null"]
JsStr(text) == [kind |-> "string", text |-> text]

NoOwnerText == <<"N", "o", " ", "o", "w", "n", "e", "r">>

(***************************************************************************)
(* PublicKey.findProgramAddressSync.  The SHA-256 of the derivation is not *)
(* computed: the derived address is the injective term (program, seeds,    *)
(* bump), and whether a hash lies on the curve is a fixed function of the  *)
(* hashed bytes.                                                           *)
(***************************************************************************)
MAX_SEED_LENGTH == 32
MaxBump == 255

NoAddress == [program |-> <<>>, seeds |-> <<>>, bump |-> 0 - 1]

\* The digest of the program id and the seeds, to which the bump is added.
Digest(programBytes, seedBuffers) ==
    SumSeq(programBytes) + SumSeq(Flatten(seedBuffers)) + Len(seedBuffers)

OnCurve(digest, bump) == (digest + bump) % 3 = 0

SetMax(S) == CHOOSE x \in S : \A y \in S : y <= x

\* The bump search: from 255 downwards, the first bump whose hash is off
\* the curve.
RECURSIVE FirstViableBump(_, _)
FirstViableBump(digest, bump) ==
    IF bump < 0 THEN 0 - 1
    ELSE IF ~OnCurve(digest, bump) THEN bump
    ELSE FirstViableBump(digest, bump - 1)

findProgramAddressSync(seedBuffers, programBytes) ==
    IF \E i \in 1..Len(seedBuffers) : Len(seedBuffers[i]) > MAX_SEED_LENGTH
    THEN [ok |-> FALSE, message |-> "Max seed length exceeded",
          address |-> NoAddress, bump |-> 0 - 1]
    ELSE LET bump == FirstViableBump(Digest(programBytes, seedBuffers), MaxBump)
         IN  IF bump < 0
             THEN [ok |-> FALSE,
                   message |-> "Unable to find a viable program address nonce",
                   address |-> NoAddress, bump |-> 0 - 1]
             ELSE [ok |-> TRUE, message |-> "",
                   address |-> [program |-> programBytes,
                                seeds |-> seedBuffers,
                                bump |-> bump],
                   bump |-> bump]

(***************************************************************************)
(* derive-pda-address: seed processing (both tool modules).                *)
(***************************************************************************)
\* /[^\x20-\x7E]+/.test(seed)
HasNonVisible(seed) == \E i \in 1..Len(seed) : ~IsAscii(seed[i])

seedTypeNoPubkey(seed) ==
    IF StartsWith0x(seed)
    THEN [type |-> "Hex", buffer |-> BufferFromHex(Drop(seed, 2)),
          ambiguous |-> FALSE]
    ELSE [type |-> "String", buffer |-> BufferFromUtf8(seed),
          ambiguous |-> FALSE]

\* The if / else-if / else of the IDL tool module's seeds.map callback.
seedType(seed) ==
    IF StartsWith0x(seed)
    THEN [type |-> "Hex", buffer |-> BufferFromHex(Drop(seed, 2)),
          ambiguous |-> FALSE]
    ELSE IF isValidSolanaAddress(seed)
    THEN [type |-> "Pubkey", buffer |-> NewPublicKey(seed).bytes,
          ambiguous |-> FALSE]
    ELSE [type |-> "String", buffer |-> BufferFromUtf8(seed),
          ambiguous |-> FALSE]

\* The same callback in the extended tool module, which also flags text
\* seeds holding characters outside 0x20..0x7E.
seedTypeExt(seed) ==
    IF StartsWith0x(seed)
    THEN [type |-> "Hex", buffer |-> BufferFromHex(Drop(seed, 2)),
          ambiguous |-> FALSE]
    ELSE IF isValidSolanaAddress(seed)
    THEN [type |-> "Pubkey", buffer |-> NewPublicKey(seed).bytes,
          ambiguous |-> FALSE]
    ELSE [type |-> "String", buffer |-> BufferFromUtf8(seed),
          ambiguous |-> HasNonVisible(seed)]

processedSeedsReversed(seeds) ==
    [i \in 1..Len(seeds) |->
        LET c == seedType(seeds[Len(seeds) + 1 - i])
        IN  [index |-> i - 1, originalValue |-> seeds[Len(seeds) + 1 - i],
             type |-> c.type, buffer |-> c.buffer, length |-> Len(c.buffer),
             ambiguous |-> c.ambiguous]]

\* seeds.map((seed, index) => ({index, originalValue, type, buffer, length}))
processedSeeds(seeds) ==
    [i \in 1..Len(seeds) |->
        LET c == seedType(seeds[i])
        IN  [index |-> i - 1, originalValue |-> seeds[i],
             type |-> c.type, buffer |-> c.buffer, length |-> Len(c.buffer),
             ambiguous |-> c.ambiguous]]

\* The same map in the extended tool module.
processedSeedsExt(seeds) ==
    [i \in 1..Len(seeds) |->
        LET c == seedTypeExt(seeds[i])
        IN  [index |-> i - 1, originalValue |-> seeds[i],
             type |-> c.type, buffer |-> c.buffer, length |-> Len(c.buffer),
             ambiguous |-> c.ambiguous]]

\* processedSeeds.map((s) => s.buffer)
seedBuffers(processed) == [i \in 1..Len(processed) |-> processed[i].buffer]

seedsMissingOnlyAbsent(hasSeeds, seeds) == ~hasSeeds

\* !seeds || seeds.length === 0
seedsMissing(hasSeeds, seeds) == ~hasSeeds \/ Len(seeds) = 0

onChainStatusAlwaysExists(hasInfo, info) ==
    [exists |-> TRUE,
     lamports |-> IF hasInfo THEN info.lamports ELSE 0,
     dataSize |-> IF hasInfo THEN info.dataLength ELSE 0,
     owner |-> IF hasInfo THEN JsStr(info.owner) ELSE JsStr(NoOwnerText)]

\* The onChainStatus object of the IDL tool module's result; hasInfo is
\* accountInfo !== null.
onChainStatus(hasInfo, info) ==
    [exists |-> hasInfo,
     lamports |-> IF hasInfo THEN info.lamports ELSE 0,
     dataSize |-> IF hasInfo THEN info.dataLength ELSE 0,
     owner |-> IF hasInfo THEN JsStr(info.owner) ELSE JsStr(NoOwnerText)]

\* The onChainStatus object of the extended tool module's result.
onChainStatusExt(accountExists, hasInfo, info) ==
    [exists |-> accountExists,
     lamports |-> IF hasInfo THEN info.lamports ELSE 0,
     dataSize |-> IF hasInfo THEN info.dataLength ELSE 0,
     owner |-> IF hasInfo THEN JsStr(info.owner) ELSE JsStr(NoOwnerText)]

reportedSeeds(processed) ==
    [i \in 1..Len(processed) |->
        [index |-> processed[i].index, value |-> processed[i].originalValue,
         type |-> processed[i].type, length |-> processed[i].length]]

reportedSeedsExt(processed) ==
    [i \in 1..Len(processed) |->
        [index |-> processed[i].index, value |-> processed[i].originalValue,
         type |-> processed[i].type, length |-> processed[i].length,
         ambiguous |-> processed[i].ambiguous]]

(***************************************************************************)
(* Idle values of the three groups of variables.                           *)
(***************************************************************************)
NotCalled == [called |-> FALSE, threw |-> FALSE, value |-> FALSE]

NotResolved ==
    [called |-> FALSE, by |-> "none", threw |-> FALSE, message |-> "",
     decl |-> 0, fields |-> <<>>, fieldCount |-> 0]

NoReturn == [kind |-> "none"]
NoContext == [programId |-> <<>>]
NoLocals == [none |-> TRUE]
NoEarlier == [present |-> FALSE]
NoParked == [pc |-> "none"]

ConcIdle == history = 0 /\ parked = NoParked

AddrIdle == candidate = <<>> /\ verdict = NotCalled

SchemaIdle == idl = NoIdl /\ accountName = <<>> /\ fieldsOut = NotResolved

ToolIdle ==
    /\ pc = "idle" /\ tool = "none" /\ context = NoContext
    /\ locals = NoLocals /\ net = <<>> /\ ret = NoReturn /\ earlier = NoEarlier
    /\ callerSeeds = {}
    /\ ConcIdle

(***************************************************************************)
(* SpecAddr: isValidSolanaAddress applied to a candidate string.           *)
(***************************************************************************)
InitAddr == candidate \in CandidatePool /\ verdict = NotCalled
            /\ SchemaIdle /\ ToolIdle

ValidateAddress ==
    /\ ~verdict.called
    /\ verdict' = [called |-> TRUE,
                   threw |-> isValidSolanaAddressOutcome(candidate).threw,
                   value |-> isValidSolanaAddressOutcome(candidate).value]
    /\ UNCHANGED <<candidate, schemaVars, toolVars, concVars>>

NextAddr == ValidateAddress

SpecAddr == InitAddr /\ [][NextAddr]_vars

(***************************************************************************)
(* SpecSchema: field resolution of an account declaration, by the shared   *)
(* helper and by get-account-details once its IDL fetch has resolved.      *)
(***************************************************************************)
InitSchema ==
    /\ idl \in SchemaIdls \cup {NoIdl}
    /\ accountName \in AccountNames \cup {NameConfigLower}
    /\ fieldsOut = NotResolved
    /\ AddrIdle /\ ToolIdle

\* getFieldsForAccount(idl, acc) for a declaration acc of the IDL.
ResolveFields ==
    /\ ~fieldsOut.called
    /\ idl.present
    /\ \E k \in 1..Len(idl.accounts) :
          LET fields == getFieldsForAccount(idl, idl.accounts[k])
          IN  fieldsOut' = [called |-> TRUE, by |-> "getFieldsForAccount",
                            threw |-> FALSE, message |-> "", decl |-> k,
                            fields |-> fields, fieldCount |-> Len(fields)]
    /\ UNCHANGED <<idl, accountName, addrVars, toolVars, concVars>>

\* get-account-details from the resolution of fetchIdl to the return.
GetAccountDetails ==
    /\ ~fieldsOut.called
    /\ LET k == FindIndex([i \in 1..Len(idl.accounts) |->
                                idl.accounts[i].name = accountName])
       IN  IF ~idl.present
           THEN fieldsOut' = [NotResolved EXCEPT !.called = TRUE,
                                 !.by = "get-account-details", !.threw = TRUE,
                                 !.message = "No IDL found for this program"]
           ELSE IF k = 0
           THEN fieldsOut' = [NotResolved EXCEPT !.called = TRUE,
                                 !.by = "get-account-details", !.threw = TRUE,
                                 !.message = "Account structure not found"]
           ELSE LET fields == accountDetailsFields(idl, idl.accounts[k])
                IN  fieldsOut' = [called |-> TRUE, by |-> "get-account-details",
                                  threw |-> FALSE, message |-> "", decl |-> k,
                                  fields |-> fields, fieldCount |-> Len(fields)]
    /\ UNCHANGED <<idl, accountName, addrVars, toolVars, concVars>>

(***************************************************************************)
(* Claims about the address validator and the schema resolver.             *)
(***************************************************************************)
\* C9: isValidSolanaAddress(c) is true exactly when c has 32 to 44
\* characters and decodes to an address, and it never throws.
C9_ValidIffLengthAndDecode ==
    verdict.called =>
        /\ ~verdict.threw
        /\ verdict.value =
              (/\ Len(candidate) >= 32
               /\ Len(candidate) <= 44
               /\ Base58Decode(candidate).ok
               /\ Len(Base58Decode(candidate).bytes) = 32)

\* The validator accepted the shortest address and has been called on it.
C9_Witness ==
    verdict.called /\ verdict.value /\ Len(candidate) = 32

\* The declaration a resolution outcome is about.
ResolvedDecl == idl.accounts[fieldsOut.decl]

SameNamedTypes ==
    {i \in 1..Len(idl.types) :
        idl.types[i].name = ResolvedDecl.name /\ idl.types[i].hasFields}

\* The schema resolver: the shared helper and get-account-details' copy of it.
SchemaResolvers == {"getFieldsForAccount", "get-account-details"}

\* C10: resolution returns the inline fields when there are any, otherwise
\* the fields of the same-named shared type, otherwise the empty list, and
\* it raises no error.
C10_SchemaFallback ==
    (fieldsOut.called /\ fieldsOut.by \in SchemaResolvers
        /\ fieldsOut.decl # 0) =>
        /\ ~fieldsOut.threw
        /\ fieldsOut.fieldCount = Len(fieldsOut.fields)
        /\ IF Len(ResolvedDecl.fields) > 0
           THEN fieldsOut.fields = ResolvedDecl.fields
           ELSE IF SameNamedTypes # {}
           THEN \E i \in SameNamedTypes : fieldsOut.fields = idl.types[i].fields
           ELSE fieldsOut.fields = <<>>

\* The helper resolved an empty declaration through a two-field shared type.
C10_Witness ==
    /\ fieldsOut.called /\ fieldsOut.by = "getFieldsForAccount"
    /\ fieldsOut.decl # 0
    /\ Len(idl.accounts[fieldsOut.decl].fields) = 0
    /\ fieldsOut.fields = <<FieldBump, FieldOwner>>

(***************************************************************************)
(* Spec: tool invocations.  One invocation is in flight at a time; it      *)
(* runs from its call to its first network request in one step, and each   *)
(* network response resumes it up to the next request or to its end.       *)
(***************************************************************************)
DerivePda == "derive-pda-address"               \* the IDL tool module
DerivePdaExt == "derive-pda-address (extended)" \* the extended tool module
Monitor == "anchor-program-monitor"

\* What connection.getAccountInfo can answer.
FundedInfo == [lamports |-> 5, dataLength |-> 0, owner |-> AddrZero]
DataInfo == [lamports |-> 7, dataLength |-> 8, owner |-> Addr43]
NoInfo == [lamports |-> 0, dataLength |-> 0, owner |-> <<>>]

AccountInfoOutcomes ==
    {[kind |-> "fail", message |-> "fetch failed", info |-> NoInfo],
     [kind |-> "null", message |-> "", info |-> NoInfo],
     [kind |-> "info", message |-> "", info |-> FundedInfo],
     [kind |-> "info", message |-> "", info |-> DataInfo]}

\* An error message: the text of its template and the values interpolated.
Msg(template, params) == [error |-> template, params |-> params]
NoMsg == Msg("", <<>>)

\* `${prefix}${error.message}` around a caught error.
Wrapped(prefix, cause) == Msg(prefix, <<Msg(cause, <<>>)>>)

Thrown(message) == [kind |-> "throw", message |-> message]
Returned(value) == [kind |-> "return", value |-> value]

\* The invocation ends with outcome r.
Finish(r, l) ==
    /\ pc' = "done" /\ ret' = r /\ locals' = l /\ net' = net

\* The invocation issues the network request call and suspends at point.
Await(point, call, l) ==
    /\ pc' = point /\ ret' = NoReturn /\ locals' = l /\ net' = Append(net, call)

DeriveInputs ==
    {[programId |-> p, hasSeeds |-> h, seeds |-> q] :
        p \in ProgramIds, h \in BOOLEAN, q \in SeqsUpTo(callerSeeds, MaxSeeds)}
    \ {c \in [programId : ProgramIds, hasSeeds : {FALSE},
              seeds : SeqsUpTo(callerSeeds, MaxSeeds)] : c.seeds # <<>>}

\* derive-pda-address (IDL tool module): execute up to getAccountInfo.
DerivePda_Execute ==
    /\ pc = "idle"
    /\ \E c \in DeriveInputs :
        /\ tool' = DerivePda
        /\ context' = c
        /\ IF ~isValidSolanaAddress(c.programId)
           THEN Finish(Thrown(Msg("Invalid Solana program ID format", <<>>)), NoLocals)
           ELSE IF seedsMissing(c.hasSeeds, c.seeds)
           THEN Finish(Thrown(Msg("At least one seed is required for PDA derivation", <<>>)),
                       NoLocals)
           ELSE LET processed == processedSeeds(c.seeds)
                    d == findProgramAddressSync(seedBuffers(processed),
                                                NewPublicKey(c.programId).bytes)
                    l == [processedSeeds |-> processed, handed |-> seedBuffers(processed),
                          derivedPda |-> d.address, bump |-> d.bump]
                IN  IF ~d.ok
                    THEN Finish(Thrown(Wrapped("Failed to derive PDA address: ", d.message)), l)
                    ELSE Await("getAccountInfo",
                               [call |-> "getAccountInfo", address |-> d.address], l)
    /\ UNCHANGED <<earlier, callerSeeds, addrVars, schemaVars, concVars>>

derivePdaResultBumpByChain(l, programId, hasInfo, info) ==
    [success |-> TRUE,
     address |-> l.derivedPda,
     bump |-> IF hasInfo THEN l.bump ELSE 0,
     programId |-> programId,
     seeds |-> reportedSeeds(l.processedSeeds),
     onChainStatus |-> onChainStatus(hasInfo, info)]

\* The object the IDL tool module's derive-pda-address returns.
derivePdaResult(l, programId, hasInfo, info) ==
    [success |-> TRUE,
     address |-> l.derivedPda,
     bump |-> l.bump,
     programId |-> programId,
     seeds |-> reportedSeeds(l.processedSeeds),
     onChainStatus |-> onChainStatus(hasInfo, info)]

\* derive-pda-address (IDL tool module): getAccountInfo answered.
DerivePda_OnAccountInfo ==
    /\ pc = "getAccountInfo" /\ tool = DerivePda
    /\ \E o \in AccountInfoOutcomes :
        IF o.kind = "fail"
        THEN Finish(Thrown(Wrapped("Failed to derive PDA address: ", o.message)),
                    [answer |-> o] @@ locals)
        ELSE Finish(Returned(derivePdaResult(locals, context.programId,
                                             o.kind = "info", o.info)),
                    [answer |-> o] @@ locals)
    /\ UNCHANGED <<tool, context, earlier, callerSeeds, addrVars, schemaVars, concVars>>

\* derive-pda-address (extended tool module): execute up to getAccountInfo.
DerivePdaExt_Execute ==
    /\ pc = "idle"
    /\ \E c \in DeriveInputs :
        /\ tool' = DerivePdaExt
        /\ context' = c
        /\ IF ~isValidSolanaAddress(c.programId)
           THEN Finish(Thrown(Msg("Invalid Solana program ID format", <<>>)), NoLocals)
           ELSE IF seedsMissing(c.hasSeeds, c.seeds)
           THEN Finish(Thrown(Msg("At least one seed is required for PDA derivation", <<>>)),
                       NoLocals)
           ELSE LET processed == processedSeedsExt(c.seeds)
                    d == findProgramAddressSync(seedBuffers(processed),
                                                NewPublicKey(c.programId).bytes)
                    l == [processedSeeds |-> processed, handed |-> seedBuffers(processed),
                          derivedPda |-> d.address, bump |-> d.bump]
                IN  IF ~d.ok
                    THEN Finish(Thrown(Wrapped("Failed to derive PDA address: ", d.message)), l)
                    ELSE Await("getAccountInfo",
                               [call |-> "getAccountInfo", address |-> d.address], l)
    /\ UNCHANGED <<earlier, callerSeeds, addrVars, schemaVars, concVars>>

\* The object the extended tool module's derive-pda-address returns;
\* accountExists and accountInfo keep their initial false / null when the
\* query threw.
derivePdaResultExt(l, c, accountExists, hasInfo, info) ==
    [success |-> TRUE,
     derivation |-> [address |-> l.derivedPda, bump |-> l.bump,
                     programId |-> c.programId],
     seeds |-> reportedSeedsExt(l.processedSeeds),
     validation |-> [seedCount |-> Len(c.seeds),
                     totalSeedLength |->
                         SumSeq([i \in 1..Len(l.processedSeeds) |->
                                    l.processedSeeds[i].length]),
                     bumpSeed |-> l.bump,
                     validAddress |-> TRUE],
     onChainStatus |-> onChainStatusExt(accountExists, hasInfo, info),
     usage |-> [canBeUsed |-> TRUE,
                recommendation |->
                    IF accountExists
                    THEN "Account exists - can be used for interactions"
                    ELSE "Account does not exist - needs to be initialized first"]]

\* derive-pda-address (extended tool module): getAccountInfo answered; a
\* failed query is caught and ignored.
DerivePdaExt_OnAccountInfo ==
    /\ pc = "getAccountInfo" /\ tool = DerivePdaExt
    /\ \E o \in AccountInfoOutcomes :
        Finish(Returned(derivePdaResultExt(locals, context, o.kind = "info",
                                           o.kind = "info", o.info)),
               [answer |-> o] @@ locals)
    /\ UNCHANGED <<tool, context, earlier, callerSeeds, addrVars, schemaVars, concVars>>

\* The caller takes the outcome; the next invocation may start.
Complete ==
    /\ pc = "done"
    /\ pc' = "idle" /\ tool' = "none" /\ context' = NoContext
    /\ locals' = NoLocals /\ net' = <<>> /\ ret' = NoReturn
    /\ UNCHANGED <<earlier, callerSeeds, addrVars, schemaVars, concVars>>

\* An observer keeps the outcome of one successful derivation.
Remember ==
    /\ pc = "done" /\ tool \in {DerivePda, DerivePdaExt}
    /\ ret.kind = "return"
    /\ ~earlier.present
    /\ earlier' = [present |-> TRUE, programId |-> context.programId,
                   seeds |-> context.seeds,
                   address |-> IF tool = DerivePda THEN ret.value.address
                               ELSE ret.value.derivation.address,
                   bump |-> IF tool = DerivePda THEN ret.value.bump
                            ELSE ret.value.derivation.bump,
                   exists |-> ret.value.onChainStatus.exists]
    /\ UNCHANGED <<pc, tool, context, locals, net, ret, callerSeeds,
                   addrVars, schemaVars, concVars>>

(***************************************************************************)
(* anchor-program-monitor.                                                 *)
(***************************************************************************)
IdlWallet ==
    [present |-> TRUE,
     accounts |-> <<[name |-> NameConfig, hasFields |-> TRUE,
                     fields |-> <<FieldOwner>>],
                    [name |-> NameVault, hasFields |-> FALSE, fields |-> <<>>]>>,
     hasTypes |-> TRUE,
     types |-> <<[name |-> NameVault, hasFields |-> TRUE,
                  fields |-> <<FieldBump, FieldOwner>>]>>,
     instructions |-> <<"initialize", "transfer">>]

IdlBare ==
    [present |-> TRUE, accounts |-> <<>>, hasTypes |-> FALSE, types |-> <<>>,
     instructions |-> <<>>]

\* Two declarations whose names differ only in letter case.
NameMyVault == <<"M", "y", "V", "a", "u", "l", "t">>
NameMyVaultUpper == <<"M", "Y", "V", "A", "U", "L", "T">>

IdlTwins ==
    [present |-> TRUE,
     accounts |-> <<[name |-> NameMyVault, hasFields |-> TRUE,
                     fields |-> <<FieldBump>>],
                    [name |-> NameMyVaultUpper, hasFields |-> TRUE,
                     fields |-> <<FieldOwner>>]>>,
     hasTypes |-> FALSE,
     types |-> <<>>,
     instructions |-> <<"initialize">>]

ToolIdls == {IdlWallet, IdlBare, IdlTwins}

\* What anchor.Program.fetchIdl can answer, with the situation on the chain
\* behind the answer.  fetchIdl reads the IDL account kept under the program
\* id: a program that is not deployed has none, as a deployed program that
\* never published one, and the answer is null in both situations.
IdlOutcomes ==
    {[kind |-> "fail", message |-> "fetch failed", idl |-> NoIdl,
      deployed |-> b] : b \in BOOLEAN}
    \cup {[kind |-> "null", message |-> "", idl |-> NoIdl, deployed |-> b] :
              b \in BOOLEAN}
    \cup {[kind |-> "idl", message |-> "", idl |-> d, deployed |-> TRUE] :
              d \in ToolIdls}

Modes ==
    {"analyze", "list-instructions", "instruction-details", "list-pdas",
     "fetch-pda"}

\* instructionName: "" stands for an absent, null or empty name.
InstructionNames == {"", "initialize", "unknown"}

\* pdaAccountName: <<>> stands for an absent, null or empty name.
PdaAccountNames == {<<>>, NameConfig, NameConfigLower, NameVault}

\* Callers pass the optional parameters of the mode they ask for.
MonitorInputs ==
    {[programId |-> p, mode |-> m, instructionName |-> "",
      pdaAccountName |-> <<>>, hasSeeds |-> FALSE, seeds |-> <<>>] :
        p \in ProgramIds, m \in Modes \ {"instruction-details", "fetch-pda"}}
    \cup {[programId |-> p, mode |-> "instruction-details",
           instructionName |-> i, pdaAccountName |-> <<>>,
           hasSeeds |-> FALSE, seeds |-> <<>>] :
             p \in ProgramIds, i \in InstructionNames}
    \cup {[programId |-> c.programId, mode |-> "fetch-pda",
           instructionName |-> "", pdaAccountName |-> a,
           hasSeeds |-> c.hasSeeds, seeds |-> c.seeds] :
             c \in DeriveInputs, a \in PdaAccountNames}

\* The failure result without its guidance.
MonitorFailureBare(error, nextSteps) ==
    [success |-> FALSE, hasError |-> TRUE, error |-> error,
     result |-> [type |-> "none"], nextSteps |-> <<>>]

MonitorFailure(error, nextSteps) ==
    [success |-> FALSE, hasError |-> TRUE, error |-> error,
     result |-> [type |-> "none"], nextSteps |-> nextSteps]

MonitorSuccess(result, nextSteps) ==
    [success |-> TRUE, hasError |-> FALSE, error |-> NoMsg,
     result |-> result, nextSteps |-> nextSteps]

\* anchor-program-monitor: execute up to fetchIdl.
Monitor_Execute ==
    /\ pc = "idle"
    /\ \E c \in MonitorInputs :
        /\ tool' = Monitor
        /\ context' = c
        /\ IF ~isValidSolanaAddress(c.programId)
           THEN Finish(Returned(MonitorFailure(
                    Msg("Invalid Solana program ID format", <<>>),
                    <<"Provide a valid base58 encoded Solana program ID (32-44 characters)">>)),
                    NoLocals)
           ELSE Await("fetchIdl",
                      [call |-> "fetchIdl", address |-> c.programId], NoLocals)
    /\ UNCHANGED <<earlier, callerSeeds, addrVars, schemaVars, concVars>>

\* analyzeProgram: the parts of the result computed from the IDL's lists.
analyzeProgram(d, programId) ==
    MonitorSuccess(
        [type |-> "comprehensive-analysis",
         summary |-> [totalInstructions |-> Len(d.instructions),
                      totalPDAAccounts |-> Len(d.accounts),
                      totalCustomTypes |-> Len(d.types)],
         instructions |-> d.instructions,
         pdaAnalysis |->
            [i \in 1..Len(d.accounts) |->
                [name |-> d.accounts[i].name,
                 size |-> Len(d.accounts[i].fields),
                 fields |-> d.accounts[i].fields]]],
        <<"Review all instructions for your use case",
          "Examine PDA account structures for data storage",
          "Use instruction-details mode to get specific instruction information",
          "Use list-pdas mode for focused PDA structure analysis",
          "Use fetch-pda mode to retrieve actual PDA data",
          "Consider security implications of mutable accounts and signer requirements">>)

listInstructions(d, programId) ==
    MonitorSuccess(
        [type |-> "detailed-instruction-list",
         summary |-> [totalInstructions |-> Len(d.instructions)],
         instructions |->
            [i \in 1..Len(d.instructions) |->
                [index |-> i, name |-> d.instructions[i]]]],
        <<"Review instructions above",
          "Use instruction-details mode for specific instruction analysis",
          "Choose appropriate instruction based on complexity level",
          "Consider starting with simple instructions for initial testing">>)

getInstructionDetails(d, programId, instructionName) ==
    LET k == FindIndex([i \in 1..Len(d.instructions) |->
                            d.instructions[i] = instructionName])
    IN  IF k = 0
        THEN MonitorFailure(
                Msg("Instruction '${instructionName}' not found in IDL", <<instructionName>>),
                <<"Use list-instructions mode to see available instructions">>)
        ELSE MonitorSuccess(
                [type |-> "instruction-details",
                 instruction |-> [name |-> d.instructions[k]]],
                <<"Collect the required account addresses and arguments",
                  "Use this information to interact with the program">>)

listPdaStructures(d, programId) ==
    MonitorSuccess(
        [type |-> "detailed-pda-list",
         summary |-> [totalPDAStructures |-> Len(d.accounts)],
         pdaStructures |->
            [i \in 1..Len(d.accounts) |->
                [index |-> i, name |-> d.accounts[i].name,
                 fieldCount |-> Len(d.accounts[i].fields),
                 fields |-> d.accounts[i].fields]]],
        <<"Review PDA structures above",
          "Use fetch-pda mode to retrieve specific PDA data",
          "Prepare appropriate seeds for PDA derivation",
          "Consider data requirements when choosing PDA structures">>)

\* fetchPdaData: seeds.map((seed) => Buffer.from(seed, 'utf8'))
utf8SeedBuffers(seeds) == [i \in 1..Len(seeds) |-> BufferFromUtf8(seeds[i])]

NotDerivedText == "No address derived - provide seeds"

\* fetchPdaData: the PDADataResult before and after the existence query.
pdaDataResult(pdaAccountName, hasAddress, pdaAddress, exists, note, info) ==
    [type |-> "pda-data",
     accountData |->
        [address |-> IF hasAddress THEN [derived |-> TRUE, pda |-> pdaAddress]
                     ELSE [derived |-> FALSE, text |-> NotDerivedText],
         struct |-> pdaAccountName,
         exists |-> exists,
         data |-> IF exists
                  THEN [lamports |-> info.lamports, owner |-> JsStr(info.owner),
                        parsed |-> "Use appropriate deserializer for structured data"]
                  ELSE [note |-> note]]]

pdaNextSteps(hasAddress) ==
    IF hasAddress
    THEN <<"Account data retrieved successfully",
           "Use appropriate deserializer to parse the raw data">>
    ELSE <<"Provide seeds to derive the PDA address",
           "Ensure seeds match the program's PDA derivation logic">>

\* anchor-program-monitor: fetchIdl answered; the mode runs up to its end or,
\* in fetch-pda mode with seeds, up to getAccountInfo.
Monitor_OnIdl ==
    /\ pc = "fetchIdl" /\ tool = Monitor
    /\ \E o \in IdlOutcomes :
        IF o.kind = "fail"
        THEN Finish(Returned(MonitorFailure(
                Wrapped("Failed to fetch IDL: ", o.message),
                <<"Verify the program ID is correct",
                  "Ensure the program is an Anchor program with published IDL",
                  "Check if the program exists on the specified network",
                  "Try using a different RPC endpoint if connection issues persist">>)),
                NoLocals)
        ELSE IF o.kind = "null"
        THEN Finish(Returned(MonitorFailure(
                Msg("No IDL found for this program ID", <<>>),
                <<"Ensure the program ID is correct and the program has a published IDL",
                  "The program might not be an Anchor program or the IDL might not be on-chain",
                  "Try checking if the program exists on the blockchain first">>)),
                NoLocals)
        ELSE IF context.mode = "analyze"
        THEN Finish(Returned(analyzeProgram(o.idl, context.programId)),
                    [idl |-> o.idl])
        ELSE IF context.mode = "list-instructions"
        THEN Finish(Returned(listInstructions(o.idl, context.programId)),
                    [idl |-> o.idl])
        ELSE IF context.mode = "instruction-details"
        THEN IF context.instructionName = ""
             THEN Finish(Returned(MonitorFailure(
                    Msg("instructionName is required for instruction-details mode", <<>>),
                    <<"Provide the name of the instruction to analyze">>)),
                    [idl |-> o.idl])
             ELSE Finish(Returned(getInstructionDetails(o.idl, context.programId,
                                                        context.instructionName)),
                         [idl |-> o.idl])
        ELSE IF context.mode = "list-pdas"
        THEN Finish(Returned(listPdaStructures(o.idl, context.programId)),
                    [idl |-> o.idl])
        ELSE \* fetch-pda
        IF context.pdaAccountName = <<>>
        THEN Finish(Returned(MonitorFailure(
                Msg("pdaAccountName is required for fetch-pda mode", <<>>),
                <<"Provide the PDA account name to fetch">>)),
                [idl |-> o.idl])
        ELSE LET k == FindIndex([i \in 1..Len(o.idl.accounts) |->
                            o.idl.accounts[i].name = context.pdaAccountName])
                 buffers == utf8SeedBuffers(context.seeds)
                 d == findProgramAddressSync(buffers,
                                             NewPublicKey(context.programId).bytes)
                 l == [idl |-> o.idl, handed |-> buffers,
                       derivedPda |-> d.address, bump |-> d.bump]
             IN  IF k = 0
                 THEN Finish(Returned(MonitorFailure(
                        Msg("PDA account '${pdaAccountName}' not found in IDL",
                            <<context.pdaAccountName>>),
                        <<"Use list-pdas mode to see available PDA structures">>)),
                        [idl |-> o.idl])
                 ELSE IF context.hasSeeds /\ Len(context.seeds) > 0
                 THEN IF ~d.ok
                      THEN Finish(Returned(MonitorFailure(
                                Msg(d.message, <<>>),
                                <<"Check the provided seeds and program ID">>)), l)
                      ELSE Await("getAccountInfo",
                                 [call |-> "getAccountInfo", address |-> d.address], l)
                 ELSE Finish(Returned(MonitorSuccess(
                        pdaDataResult(context.pdaAccountName, FALSE, NoAddress,
                                      FALSE, "Provide seeds to derive PDA address",
                                      NoInfo),
                        pdaNextSteps(FALSE))), [idl |-> o.idl])
    /\ UNCHANGED <<tool, context, earlier, callerSeeds, addrVars, schemaVars, concVars>>

\* anchor-program-monitor, fetch-pda mode: getAccountInfo answered; a failed
\* query only changes the note of the result.
Monitor_OnAccountInfo ==
    /\ pc = "getAccountInfo" /\ tool = Monitor
    /\ \E o \in AccountInfoOutcomes :
        Finish(Returned(MonitorSuccess(
            pdaDataResult(context.pdaAccountName, TRUE, locals.derivedPda,
                          o.kind = "info",
                          IF o.kind = "fail"
                          THEN "Failed to fetch account data from blockchain"
                          ELSE "PDA address derived successfully",
                          o.info),
            pdaNextSteps(TRUE))), [answer |-> o] @@ locals)
    /\ UNCHANGED <<tool, context, earlier, callerSeeds, addrVars, schemaVars, concVars>>

(***************************************************************************)
(* The account data tools of the IDL tool module: fetch-account-data,      *)
(* fetch-all-accounts, fetch-accounts-by-filter, search-accounts-by-pubkey.*)
(***************************************************************************)
GetByType == "get-program-accounts-by-type"
FetchOne == "fetch-account-data"
FetchAll == "fetch-all-accounts"
FetchByFilter == "fetch-accounts-by-filter"
SearchByPubkey == "search-accounts-by-pubkey"

MaxRecords == 2     \* longest list of accounts a bulk fetch answers
MaxFilters == 2     \* longest filter list

\* String.prototype.toLowerCase on the ASCII letters.
LowerChar(c) ==
    IF IsAscii(c) /\ AsciiCode(c) >= 65 /\ AsciiCode(c) <= 90
    THEN AsciiVisible[AsciiCode(c) + 1]
    ELSE c

toLowerCase(s) == [i \in 1..Len(s) |-> LowerChar(s[i])]

\* idl.accounts?.find((acc) => acc.name.toLowerCase() === accountName.toLowerCase())
findAccountStruct(d, name) ==
    FindIndex([i \in 1..Len(d.accounts) |->
                  toLowerCase(d.accounts[i].name) = toLowerCase(name)])

\* (idl.accounts || []).map((acc) => acc.name)
availableAccounts(d) == [i \in 1..Len(d.accounts) |-> d.accounts[i].name]

\* name.charAt(0).toLowerCase() + name.slice(1)
camelCaseAccountName(name) ==
    IF name = <<>> THEN <<>> ELSE <<LowerChar(name[1])>> \o Tail(name)

\* Anchor's camelCase of a declaration name, for the names of this model: a
\* name written in capitals throughout becomes lower case, a name in Pascal
\* case gets a lower-case initial.
anchorCamelCase(name) ==
    IF Len(name) > 1 /\ \A i \in 1..Len(name) : LowerChar(name[i]) # name[i]
    THEN toLowerCase(name)
    ELSE <<LowerChar(name[1])>> \o Tail(name)

\* The keys of program.account, which Anchor builds from the IDL.
anchorAccountKeys(d) ==
    {anchorCamelCase(d.accounts[i].name) : i \in 1..Len(d.accounts)}

\* Decoded field values and filter values.
JsValue(kind, text, num, flag, items) ==
    [kind |-> kind, text |-> text, num |-> num, flag |-> flag, items |-> items]

PubkeyVal(text) == JsValue("pubkey", text, 0, FALSE, <<>>)
BnVal(dec) == JsValue("bn", dec, 0, FALSE, <<>>)
StrVal(text) == JsValue("string", text, 0, FALSE, <<>>)
NumVal(n) == JsValue("number", <<>>, n, FALSE, <<>>)
BoolVal(b) == JsValue("boolean", <<>>, 0, b, <<>>)
NullVal == JsValue("null", <<>>, 0, FALSE, <<>>)
ObjVal(items) == JsValue("object", <<>>, 0, FALSE, items)

Digit(n) == HexDigits[n + 1]

\* Number.prototype.toString for the small naturals of the model.
NumToString(n) == IF n < 10 THEN <<Digit(n)>> ELSE <<Digit(n \div 10), Digit(n % 10)>>

ObjectObjectText ==
    <<"[", "o", "b", "j", "e", "c", "t", " ", "O", "b", "j", "e", "c", "t", "]">>

\* value.toString()
ToStringOf(v) ==
    CASE v.kind = "pubkey" -> v.text
      [] v.kind = "bn" -> v.text
      [] v.kind = "string" -> v.text
      [] v.kind = "number" -> NumToString(v.num)
      [] v.kind = "boolean" ->
            IF v.flag THEN <<"t", "r", "u", "e">> ELSE <<"f", "a", "l", "s", "e">>
      [] OTHER -> ObjectObjectText

\* a === b on primitives
StrictEquals(a, b) ==
    /\ a.kind = b.kind
    /\ a.kind \in {"string", "number", "boolean", "null"}
    /\ a.text = b.text /\ a.num = b.num /\ a.flag = b.flag

\* acc.account[field]: the value of the first member with that name.
HasField(account, field) == \E i \in 1..Len(account) : account[i].name = field

FieldOf(account, field) ==
    account[CHOOSE i \in 1..Len(account) : account[i].name = field].value

\* The callback of filters.every in fetch-accounts-by-filter.
filterMatches(account, filter) ==
    IF ~HasField(account, filter.field) THEN FALSE
    ELSE LET fieldValue == FieldOf(account, filter.field)
         IN  IF fieldValue.kind = "pubkey"
             THEN filter.value.kind = "string" /\ fieldValue.text = filter.value.text
             ELSE IF fieldValue.kind \in {"bn", "object"}
             THEN ToStringOf(fieldValue) = ToStringOf(filter.value)
             ELSE StrictEquals(fieldValue, filter.value)

\* The filter with filters.some in place of filters.every.
filteredAccountsSome(allAccounts, filters) ==
    SelectSeq(allAccounts,
              LAMBDA acc : \E k \in 1..Len(filters) :
                              filterMatches(acc.account, filters[k]))

\* allAccounts.filter((acc) => filters.every(...))
filteredAccounts(allAccounts, filters) ==
    SelectSeq(allAccounts,
              LAMBDA acc : \A k \in 1..Len(filters) :
                              filterMatches(acc.account, filters[k]))

\* The search looking at a value without walking into it.
searchInObjectShallow(obj, targetPubkey) ==
    obj.kind \in {"pubkey", "string"} /\ obj.text = targetPubkey

\* searchInObject of search-accounts-by-pubkey.
RECURSIVE searchInObject(_, _)
searchInObject(obj, targetPubkey) ==
    CASE obj.kind = "null" -> FALSE
      [] obj.kind = "pubkey" -> obj.text = targetPubkey
      [] obj.kind = "string" -> obj.text = targetPubkey
      [] obj.kind = "object" ->
            \E i \in 1..Len(obj.items) : searchInObject(obj.items[i], targetPubkey)
      [] OTHER -> FALSE

\* A decoded account is an object whose values are its members' values; the
\* words of a big integer hold no string and no address.
matchingAccounts(allAccounts, targetPubkey) ==
    SelectSeq(allAccounts,
              LAMBDA acc : \E i \in 1..Len(acc.account) :
                              searchInObject(acc.account[i].value, targetPubkey))

\* The page cut one record past the limit.
listedAccountsOnePast(accounts, limit) ==
    [i \in 1..(IF limit + 1 < Len(accounts) THEN limit + 1 ELSE Len(accounts)) |->
        [address |-> accounts[i].publicKey, data |-> accounts[i].account]]

\* accounts.slice(0, limit).map((acc) => ({address, data}))
listedAccounts(accounts, limit) ==
    [i \in 1..(IF limit < Len(accounts) THEN limit ELSE Len(accounts)) |->
        [address |-> accounts[i].publicKey, data |-> accounts[i].account]]

\* Accounts a program may hold.
RecordOwned ==
    [publicKey |-> AddrMax,
     account |-> <<[name |-> "owner", value |-> PubkeyVal(Addr43)],
                   [name |-> "count", value |-> BnVal(<<"5">>)],
                   [name |-> "bump", value |-> NumVal(5)]>>]

RecordNested ==
    [publicKey |-> AddrZero,
     account |-> <<[name |-> "owner", value |-> PubkeyVal(Addr43)],
                   [name |-> "count", value |-> BnVal(<<"7">>)],
                   [name |-> "meta",
                    value |-> ObjVal(<<NumVal(1), ObjVal(<<PubkeyVal(AddrZero)>>)>>)]>>]

RecordPlain ==
    [publicKey |-> Addr43,
     account |-> <<[name |-> "bump", value |-> NumVal(5)],
                   [name |-> "label", value |-> StrVal(Addr43)]>>]

RecordPool == {RecordOwned, RecordNested, RecordPlain}

FilterPool ==
    {[field |-> "owner", value |-> StrVal(Addr43)],
     [field |-> "count", value |-> NumVal(5)],
     [field |-> "bump", value |-> NumVal(5)],
     [field |-> "meta", value |-> StrVal(ObjectObjectText)]}

DecodeErrorText == "Trying to access beyond buffer length"

\* What program.account[key].all() can answer.  all() decodes every stored
\* record before it resolves, so a stored record that does not decode rejects
\* the whole call; others are the stored records that would have decoded.
AllOutcomes ==
    {[kind |-> "fail", message |-> "fetch failed", accounts |-> <<>>]}
    \cup {[kind |-> "fail", message |-> DecodeErrorText, accounts |-> <<>>,
           others |-> q] : q \in SeqsUpTo(RecordPool, 1)}
    \cup {[kind |-> "accounts", message |-> "", accounts |-> q] :
            q \in SeqsUpTo(RecordPool, MaxRecords)}

\* What program.account[key].fetch(address) can answer.
FetchOutcomes ==
    {[kind |-> "fail", message |-> "Account does not exist or has no data",
      data |-> <<>>],
     [kind |-> "fail", message |-> "Invalid account discriminator",
      data |-> <<>>]}
    \cup {[kind |-> "data", message |-> "", data |-> r.account] : r \in RecordPool}

AccountTypeNames ==
    {NameConfig, NameConfigLower, NameVault, NameMyVaultUpper,
     <<"N", "o", "n", "e">>}

AddressArgs == {Addr43, AddrZero, AddrOverflow}

Limits == {[hasLimit |-> FALSE, limit |-> 0], [hasLimit |-> TRUE, limit |-> 1]}

LimitOr(c, default) == IF c.hasLimit THEN c.limit ELSE default

WrappedMsg(prefix, cause) == Msg(prefix, <<cause>>)

\* The not-found message without the list of declared names.
AccountNotFoundMsgBare(d, name) ==
    Msg("Account structure '${accountName}' not found in IDL. Available accounts: ${availableAccounts.join(', ')}",
        <<name, <<>>>>)

AccountNotFoundMsg(d, name) ==
    Msg("Account structure '${accountName}' not found in IDL. Available accounts: ${availableAccounts.join(', ')}",
        <<name, availableAccounts(d)>>)

\* The storage key taken from the caller's spelling of the name.
resolveStorageKeyCallerSpelling(o, name) ==
    IF o.kind = "fail"
    THEN [ok |-> FALSE, message |-> Msg(o.message, <<>>), key |-> <<>>]
    ELSE IF o.kind = "null"
    THEN [ok |-> FALSE, message |-> Msg("No IDL found for this program", <<>>),
          key |-> <<>>]
    ELSE LET k == findAccountStruct(o.idl, name)
         IN  IF k = 0
             THEN [ok |-> FALSE, message |-> AccountNotFoundMsg(o.idl, name),
                   key |-> <<>>]
             ELSE IF camelCaseAccountName(name) \notin anchorAccountKeys(o.idl)
             THEN [ok |-> FALSE,
                   message |-> Msg("Cannot read properties of undefined", <<>>),
                   key |-> camelCaseAccountName(name)]
             ELSE [ok |-> TRUE, message |-> NoMsg,
                   key |-> camelCaseAccountName(name)]

\* The steps every account data tool takes when fetchIdl is answered, up to
\* the data request: the outcome is an error message or the storage key.
resolveStorageKey(o, name) ==
    IF o.kind = "fail"
    THEN [ok |-> FALSE, message |-> Msg(o.message, <<>>), key |-> <<>>]
    ELSE IF o.kind = "null"
    THEN [ok |-> FALSE, message |-> Msg("No IDL found for this program", <<>>),
          key |-> <<>>]
    ELSE LET k == findAccountStruct(o.idl, name)
         IN  IF k = 0
             THEN [ok |-> FALSE, message |-> AccountNotFoundMsg(o.idl, name),
                   key |-> <<>>]
             ELSE IF camelCaseAccountName(o.idl.accounts[k].name)
                        \notin anchorAccountKeys(o.idl)
             THEN [ok |-> FALSE,
                   message |-> Msg("Cannot read properties of undefined", <<>>),
                   key |-> camelCaseAccountName(o.idl.accounts[k].name)]
             ELSE [ok |-> TRUE, message |-> NoMsg,
                   key |-> camelCaseAccountName(o.idl.accounts[k].name)]

\* fetch-account-data with the IDL request issued before any validation.
FetchOne_ExecuteFetchFirst ==
    /\ pc = "idle"
    /\ \E p \in ProgramIds, n \in AccountTypeNames, a \in AddressArgs :
        /\ tool' = FetchOne
        /\ context' = [programId |-> p, accountName |-> n, accountAddress |-> a]
        /\ Await("fetchIdl", [call |-> "fetchIdl", address |-> p], NoLocals)
    /\ UNCHANGED <<earlier, callerSeeds, addrVars, schemaVars, concVars>>

\* fetch-account-data: execute up to fetchIdl.
FetchOne_Execute ==
    /\ pc = "idle"
    /\ \E p \in ProgramIds, n \in AccountTypeNames, a \in AddressArgs :
        /\ tool' = FetchOne
        /\ context' = [programId |-> p, accountName |-> n, accountAddress |-> a]
        /\ IF ~isValidSolanaAddress(p)
           THEN Finish(Thrown(Msg("Invalid Solana program ID format", <<>>)), NoLocals)
           ELSE IF ~isValidSolanaAddress(a)
           THEN Finish(Thrown(Msg("Invalid account address format", <<>>)), NoLocals)
           ELSE Await("fetchIdl", [call |-> "fetchIdl", address |-> p], NoLocals)
    /\ UNCHANGED <<earlier, callerSeeds, addrVars, schemaVars, concVars>>

\* fetch-account-data: fetchIdl answered, up to program.account[key].fetch.
FetchOne_OnIdl ==
    /\ pc = "fetchIdl" /\ tool = FetchOne
    /\ \E o \in IdlOutcomes :
        LET r == resolveStorageKey(o, context.accountName)
        IN  IF ~r.ok
            THEN Finish(Thrown(WrappedMsg("Failed to fetch account data: ", r.message)),
                        [idl |-> o.idl, deployed |-> o.deployed, camelCaseAccountName |-> r.key])
            ELSE Await("account.fetch",
                       [call |-> "account.fetch", key |-> r.key,
                        address |-> context.accountAddress],
                       [idl |-> o.idl, deployed |-> o.deployed, camelCaseAccountName |-> r.key])
    /\ UNCHANGED <<tool, context, earlier, callerSeeds, addrVars, schemaVars, concVars>>

\* fetch-account-data: the account fetch answered.
FetchOne_OnData ==
    /\ pc = "account.fetch" /\ tool = FetchOne
    /\ \E o \in FetchOutcomes :
        IF o.kind = "fail"
        THEN Finish(Thrown(Wrapped("Failed to fetch account data: ", o.message)),
                    [answer |-> o] @@ locals)
        ELSE Finish(Returned([address |-> context.accountAddress,
                              accountType |-> context.accountName,
                              data |-> o.data,
                              success |-> TRUE]),
                    [answer |-> o] @@ locals)
    /\ UNCHANGED <<tool, context, earlier, callerSeeds, addrVars, schemaVars, concVars>>

\* fetch-all-accounts: execute up to fetchIdl.
FetchAll_Execute ==
    /\ pc = "idle"
    /\ \E p \in ProgramIds, n \in AccountTypeNames, lim \in Limits :
        /\ tool' = FetchAll
        /\ context' = [programId |-> p, accountName |-> n,
                       hasLimit |-> lim.hasLimit, limit |-> lim.limit]
        /\ IF ~isValidSolanaAddress(p)
           THEN Finish(Thrown(Msg("Invalid Solana program ID format", <<>>)), NoLocals)
           ELSE Await("fetchIdl", [call |-> "fetchIdl", address |-> p], NoLocals)
    /\ UNCHANGED <<earlier, callerSeeds, addrVars, schemaVars, concVars>>

\* fetch-all-accounts: fetchIdl answered, up to program.account[key].all.
FetchAll_OnIdl ==
    /\ pc = "fetchIdl" /\ tool = FetchAll
    /\ \E o \in IdlOutcomes :
        LET r == resolveStorageKey(o, context.accountName)
        IN  IF ~r.ok
            THEN Finish(Thrown(WrappedMsg("Failed to fetch all accounts: ", r.message)),
                        [idl |-> o.idl, deployed |-> o.deployed, camelCaseAccountName |-> r.key])
            ELSE Await("account.all", [call |-> "account.all", key |-> r.key],
                       [idl |-> o.idl, deployed |-> o.deployed, camelCaseAccountName |-> r.key])
    /\ UNCHANGED <<tool, context, earlier, callerSeeds, addrVars, schemaVars, concVars>>

\* fetch-all-accounts: the bulk fetch answered.
FetchAll_OnAccounts ==
    /\ pc = "account.all" /\ tool = FetchAll
    /\ \E o \in AllOutcomes :
        IF o.kind = "fail"
        THEN Finish(Thrown(Wrapped("Failed to fetch all accounts: ", o.message)),
                    [answer |-> o] @@ locals)
        ELSE Finish(Returned(
                [accountType |-> context.accountName,
                 totalFound |-> Len(o.accounts),
                 accounts |-> listedAccounts(o.accounts, LimitOr(context, 50)),
                 hasMore |-> Len(o.accounts) > LimitOr(context, 50)]),
                [answer |-> o] @@ locals)
    /\ UNCHANGED <<tool, context, earlier, callerSeeds, addrVars, schemaVars, concVars>>

\* fetch-accounts-by-filter: execute up to fetchIdl.
FetchByFilter_Execute ==
    /\ pc = "idle"
    /\ \E p \in ProgramIds, n \in AccountTypeNames, lim \in Limits,
          f \in SeqsUpTo(FilterPool, MaxFilters) :
        /\ tool' = FetchByFilter
        /\ context' = [programId |-> p, accountName |-> n, filters |-> f,
                       hasLimit |-> lim.hasLimit, limit |-> lim.limit]
        /\ IF ~isValidSolanaAddress(p)
           THEN Finish(Thrown(Msg("Invalid Solana program ID format", <<>>)), NoLocals)
           ELSE Await("fetchIdl", [call |-> "fetchIdl", address |-> p], NoLocals)
    /\ UNCHANGED <<earlier, callerSeeds, addrVars, schemaVars, concVars>>

\* fetch-accounts-by-filter: fetchIdl answered, up to program.account[key].all.
FetchByFilter_OnIdl ==
    /\ pc = "fetchIdl" /\ tool = FetchByFilter
    /\ \E o \in IdlOutcomes :
        LET r == resolveStorageKey(o, context.accountName)
        IN  IF ~r.ok
            THEN Finish(Thrown(WrappedMsg("Failed to fetch filtered accounts: ",
                                          r.message)),
                        [idl |-> o.idl, deployed |-> o.deployed, camelCaseAccountName |-> r.key])
            ELSE Await("account.all", [call |-> "account.all", key |-> r.key],
                       [idl |-> o.idl, deployed |-> o.deployed, camelCaseAccountName |-> r.key])
    /\ UNCHANGED <<tool, context, earlier, callerSeeds, addrVars, schemaVars, concVars>>

\* fetch-accounts-by-filter: the bulk fetch answered.
FetchByFilter_OnAccounts ==
    /\ pc = "account.all" /\ tool = FetchByFilter
    /\ \E o \in AllOutcomes :
        IF o.kind = "fail"
        THEN Finish(Thrown(Wrapped("Failed to fetch filtered accounts: ", o.message)),
                    [answer |-> o] @@ locals)
        ELSE LET matched == filteredAccounts(o.accounts, context.filters)
             IN  Finish(Returned(
                    [accountType |-> context.accountName,
                     filters |-> context.filters,
                     totalMatched |-> Len(matched),
                     accounts |-> listedAccounts(matched, LimitOr(context, 20)),
                     hasMore |-> Len(matched) > LimitOr(context, 20)]),
                    [answer |-> o] @@ locals)
    /\ UNCHANGED <<tool, context, earlier, callerSeeds, addrVars, schemaVars, concVars>>

\* search-accounts-by-pubkey: execute up to fetchIdl.
SearchByPubkey_Execute ==
    /\ pc = "idle"
    /\ \E p \in ProgramIds, n \in AccountTypeNames, lim \in Limits,
          t \in AddressArgs :
        /\ tool' = SearchByPubkey
        /\ context' = [programId |-> p, accountName |-> n, targetPubkey |-> t,
                       hasLimit |-> lim.hasLimit, limit |-> lim.limit]
        /\ IF ~isValidSolanaAddress(p)
           THEN Finish(Thrown(Msg("Invalid Solana program ID format", <<>>)), NoLocals)
           ELSE IF ~isValidSolanaAddress(t)
           THEN Finish(Thrown(Msg("Invalid target public key format", <<>>)), NoLocals)
           ELSE Await("fetchIdl", [call |-> "fetchIdl", address |-> p], NoLocals)
    /\ UNCHANGED <<earlier, callerSeeds, addrVars, schemaVars, concVars>>

\* search-accounts-by-pubkey: fetchIdl answered, up to program.account[key].all.
SearchByPubkey_OnIdl ==
    /\ pc = "fetchIdl" /\ tool = SearchByPubkey
    /\ \E o \in IdlOutcomes :
        LET r == resolveStorageKey(o, context.accountName)
        IN  IF ~r.ok
            THEN Finish(Thrown(WrappedMsg("Failed to search accounts by pubkey: ",
                                          r.message)),
                        [idl |-> o.idl, deployed |-> o.deployed, camelCaseAccountName |-> r.key])
            ELSE Await("account.all", [call |-> "account.all", key |-> r.key],
                       [idl |-> o.idl, deployed |-> o.deployed, camelCaseAccountName |-> r.key])
    /\ UNCHANGED <<tool, context, earlier, callerSeeds, addrVars, schemaVars, concVars>>

\* search-accounts-by-pubkey: the bulk fetch answered.
SearchByPubkey_OnAccounts ==
    /\ pc = "account.all" /\ tool = SearchByPubkey
    /\ \E o \in AllOutcomes :
        IF o.kind = "fail"
        THEN Finish(Thrown(Wrapped("Failed to search accounts by pubkey: ",
                                   o.message)),
                    [answer |-> o] @@ locals)
        ELSE LET matched == matchingAccounts(o.accounts, context.targetPubkey)
             IN  Finish(Returned(
                    [accountType |-> context.accountName,
                     targetPubkey |-> context.targetPubkey,
                     totalMatched |-> Len(matched),
                     accounts |-> listedAccounts(matched, LimitOr(context, 20)),
                     hasMore |-> Len(matched) > LimitOr(context, 20)]),
                    [answer |-> o] @@ locals)
    /\ UNCHANGED <<tool, context, earlier, callerSeeds, addrVars, schemaVars, concVars>>

\* get-program-accounts-by-type: execute up to fetchIdl.
GetByType_Execute ==
    /\ pc = "idle"
    /\ \E p \in ProgramIds, n \in AccountTypeNames, lim \in Limits :
        /\ tool' = GetByType
        /\ context' = [programId |-> p, accountName |-> n,
                       hasLimit |-> lim.hasLimit, limit |-> lim.limit]
        /\ IF ~isValidSolanaAddress(p)
           THEN Finish(Thrown(Msg("Invalid Solana program ID format", <<>>)), NoLocals)
           ELSE Await("fetchIdl", [call |-> "fetchIdl", address |-> p], NoLocals)
    /\ UNCHANGED <<earlier, callerSeeds, addrVars, schemaVars, concVars>>

\* error.message.includes(needle), for the messages that reach the catch of
\* get-program-accounts-by-type.
MessageIncludes(message, needle) ==
    \/ message.error = needle
    \/ needle = "No IDL found" /\ message.error = "No IDL found for this program"

\* get-program-accounts-by-type: the catch block's rewriting of an error.
byTypeFailure(c, message) ==
    IF MessageIncludes(message, "Program account not found")
    THEN Msg("Program ${programId} not found on-chain. Check if the program is deployed.",
             <<c.programId>>)
    ELSE IF MessageIncludes(message, "Invalid program id")
    THEN Msg("Invalid program ID format: ${programId}", <<c.programId>>)
    ELSE IF MessageIncludes(message, "No IDL found")
    THEN Msg("No IDL found for program ${programId}. This may not be an Anchor program or IDL is not published.",
             <<c.programId>>)
    ELSE Msg("Failed to get ${accountName} accounts: ${error.message}",
             <<c.accountName, message>>)

\* The key as the lower-cased name.
byTypeKeyLowerCased(name) == toLowerCase(name)

\* get-program-accounts-by-type, lines 1103-1106: its copy of the key.
byTypeCamelCaseAccountName(name) ==
    IF name = <<>> THEN <<>> ELSE <<LowerChar(name[1])>> \o Tail(name)

\* get-program-accounts-by-type: fetchIdl answered, up to program.account[key].all.
GetByType_OnIdl ==
    /\ pc = "fetchIdl" /\ tool = GetByType
    /\ \E o \in IdlOutcomes :
        LET k == findAccountStruct(o.idl, context.accountName)
            key == byTypeCamelCaseAccountName(o.idl.accounts[k].name)
        IN  IF o.kind = "fail"
            THEN Finish(Thrown(byTypeFailure(context, Msg(o.message, <<>>))),
                        [idl |-> o.idl, deployed |-> o.deployed, camelCaseAccountName |-> <<>>])
            ELSE IF o.kind = "null"
            THEN Finish(Thrown(byTypeFailure(context,
                            Msg("No IDL found for this program", <<>>))),
                        [idl |-> o.idl, deployed |-> o.deployed, camelCaseAccountName |-> <<>>])
            ELSE IF k = 0
            THEN Finish(Thrown(byTypeFailure(context,
                            AccountNotFoundMsg(o.idl, context.accountName))),
                        [idl |-> o.idl, deployed |-> o.deployed, camelCaseAccountName |-> <<>>])
            ELSE IF key \notin anchorAccountKeys(o.idl)
            THEN Finish(Thrown(byTypeFailure(context,
                            Msg("Cannot read properties of undefined", <<>>))),
                        [idl |-> o.idl, deployed |-> o.deployed, camelCaseAccountName |-> key])
            ELSE Await("account.all", [call |-> "account.all", key |-> key],
                       [idl |-> o.idl, deployed |-> o.deployed, camelCaseAccountName |-> key])
    /\ UNCHANGED <<tool, context, earlier, callerSeeds, addrVars, schemaVars, concVars>>

\* accounts.slice(0, limit).map(...) of get-program-accounts-by-type.
decodedAccounts(accounts, limit, programId) ==
    [i \in 1..(IF Len(accounts) < limit THEN Len(accounts) ELSE limit) |->
        [address |-> accounts[i].publicKey, data |-> accounts[i].account,
         lamports |-> 0, owner |-> programId, executable |-> FALSE,
         rentEpoch |-> 0]]

\* get-program-accounts-by-type: the bulk fetch answered.
GetByType_OnAccounts ==
    /\ pc = "account.all" /\ tool = GetByType
    /\ \E o \in AllOutcomes :
        LET k == findAccountStruct(locals.idl, context.accountName)
            structName == locals.idl.accounts[k].name
        IN  IF o.kind = "fail"
            THEN Finish(Thrown(byTypeFailure(context, Msg(o.message, <<>>))),
                        [answer |-> o] @@ locals)
            ELSE IF Len(o.accounts) = 0
            THEN Finish(Returned(
                    [accountType |-> structName,
                     totalFound |-> 0,
                     accounts |-> <<>>,
                     hasMore |-> FALSE,
                     message |-> Msg("No ${accountStruct.name} accounts found for this program.",
                                     <<structName>>)]),
                    [answer |-> o] @@ locals)
            ELSE Finish(Returned(
                    [accountType |-> structName,
                     totalFound |-> Len(o.accounts),
                     accounts |-> decodedAccounts(o.accounts, LimitOr(context, 50),
                                                  context.programId),
                     hasMore |-> Len(o.accounts) > LimitOr(context, 50)]),
                    [answer |-> o] @@ locals)
    /\ UNCHANGED <<tool, context, earlier, callerSeeds, addrVars, schemaVars, concVars>>

(***************************************************************************)
(* SpecSchema, continued: the other components that report the fields of   *)
(* an account declaration, each from the resolution of its IDL fetch to    *)
(* its return.                                                             *)
(***************************************************************************)
\* list-all-accounts, lines 799-806: the handler's own copy of the fallback.
listAllAccountsFields(d, acc) ==
    LET fields == acc.fields                \* acc.type?.fields || []
    IN  IF Len(fields) = 0 /\ d.hasTypes
        THEN LET typeDef == findTypeDef(d, acc.name)
             IN  IF typeDef.found /\ typeDef.hasFields
                 THEN typeDef.fields
                 ELSE fields
        ELSE fields

\* get-pda-details, lines 300-306: the handler's own copy of the fallback.
pdaDetailsFields(d, pdaStruct) ==
    LET fields == pdaStruct.fields          \* pdaStruct.type?.fields || []
    IN  IF Len(fields) = 0 /\ d.hasTypes
        THEN LET typeDef == findTypeDef(d, pdaStruct.name)
             IN  IF typeDef.found /\ typeDef.hasFields
                 THEN typeDef.fields
                 ELSE fields
        ELSE fields

\* fetch-pda-data, structure.fields: (pdaStruct.type?.fields || []).map(...)
pdaDataStructureFields(pdaStruct) == pdaStruct.fields

FieldsReported(component, k, fields) ==
    fieldsOut' = [called |-> TRUE, by |-> component, threw |-> FALSE,
                  message |-> "", decl |-> k,
                  fields |-> fields, fieldCount |-> Len(fields)]

FieldsFailed(component, text) ==
    fieldsOut' = [NotResolved EXCEPT !.called = TRUE, !.by = component,
                                     !.threw = TRUE, !.message = text]

\* list-all-accounts: one entry of the accounts it lists.
ListAllAccounts ==
    /\ ~fieldsOut.called
    /\ IF ~idl.present
       THEN FieldsFailed("list-all-accounts", "No IDL found for this program")
       ELSE \E k \in 1..Len(idl.accounts) :
               FieldsReported("list-all-accounts", k,
                              listAllAccountsFields(idl, idl.accounts[k]))
    /\ UNCHANGED <<idl, accountName, addrVars, toolVars, concVars>>

\* get-pda-details (extended tool module).
GetPdaDetails ==
    /\ ~fieldsOut.called
    /\ LET k == FindIndex([i \in 1..Len(idl.accounts) |->
                                idl.accounts[i].name = accountName])
       IN  IF ~idl.present
           THEN FieldsFailed("get-pda-details", "No IDL found for this program")
           ELSE IF k = 0
           THEN FieldsFailed("get-pda-details", "PDA structure not found")
           ELSE FieldsReported("get-pda-details", k,
                               pdaDetailsFields(idl, idl.accounts[k]))
    /\ UNCHANGED <<idl, accountName, addrVars, toolVars, concVars>>

\* fetch-pda-data (extended tool module): the structure it reports is the
\* same whether the account exists or not; a failed chain query throws.
FetchPdaDataFields ==
    /\ ~fieldsOut.called
    /\ \E o \in AccountInfoOutcomes :
        LET k == FindIndex([i \in 1..Len(idl.accounts) |->
                                idl.accounts[i].name = accountName])
        IN  IF ~idl.present
            THEN FieldsFailed("fetch-pda-data", "No IDL found for this program")
            ELSE IF k = 0
            THEN FieldsFailed("fetch-pda-data", "PDA structure not found")
            ELSE IF o.kind = "fail"
            THEN FieldsFailed("fetch-pda-data", o.message)
            ELSE FieldsReported("fetch-pda-data", k,
                                pdaDataStructureFields(idl.accounts[k]))
    /\ UNCHANGED <<idl, accountName, addrVars, toolVars, concVars>>

\* anchor-program-monitor, mode list-pdas: one entry of pdaStructures.
MonitorListPdas ==
    /\ ~fieldsOut.called
    /\ IF ~idl.present
       THEN FieldsFailed("list-pdas", "No IDL found for this program")
       ELSE \E k \in 1..Len(idl.accounts) :
               LET entry == listPdaStructures(idl, <<>>).result.pdaStructures[k]
               IN  /\ FieldsReported("list-pdas", k, entry.fields)
                   /\ entry.fieldCount = Len(entry.fields)
    /\ UNCHANGED <<idl, accountName, addrVars, toolVars, concVars>>

\* anchor-program-monitor, mode analyze: one entry of pdaAnalysis.
MonitorAnalyze ==
    /\ ~fieldsOut.called
    /\ IF ~idl.present
       THEN FieldsFailed("analyze", "No IDL found for this program")
       ELSE \E k \in 1..Len(idl.accounts) :
               LET d == [instructions |-> <<>>] @@ idl
                   entry == analyzeProgram(d, <<>>).result.pdaAnalysis[k]
               IN  /\ FieldsReported("analyze", k, entry.fields)
                   /\ entry.size = Len(entry.fields)
    /\ UNCHANGED <<idl, accountName, addrVars, toolVars, concVars>>

NextSchema ==
    \/ ResolveFields
    \/ GetAccountDetails
    \/ ListAllAccounts
    \/ GetPdaDetails
    \/ FetchPdaDataFields
    \/ MonitorListPdas
    \/ MonitorAnalyze

SpecSchema == InitSchema /\ [][NextSchema]_vars

\* The components that report the fields of an account declaration.
FieldReaders ==
    {"getFieldsForAccount", "get-account-details", "list-all-accounts",
     "get-pda-details", "fetch-pda-data", "list-pdas", "analyze"}

\* C11: every component that reports the fields or field count of an account
\* declaration reports the list the schema fallback resolves for it, so no
\* two components disagree on a declaration whose inline list is empty and
\* whose same-named shared type has fields.
C11_SameFieldsEverywhere ==
    (fieldsOut.called /\ fieldsOut.by \in FieldReaders /\ ~fieldsOut.threw) =>
        /\ fieldsOut.fields = getFieldsForAccount(idl, ResolvedDecl)
        /\ fieldsOut.fieldCount = Len(getFieldsForAccount(idl, ResolvedDecl))

(***************************************************************************)
(* The specifications of the tool invocations.                             *)
(***************************************************************************)
Init ==
    /\ pc = "idle" /\ tool = "none" /\ context = NoContext
    /\ locals = NoLocals /\ net = <<>> /\ ret = NoReturn /\ earlier = NoEarlier
    /\ callerSeeds = SeedPool
    /\ AddrIdle /\ SchemaIdle /\ ConcIdle

Next ==
    \/ DerivePda_Execute
    \/ DerivePda_OnAccountInfo
    \/ DerivePdaExt_Execute
    \/ DerivePdaExt_OnAccountInfo
    \/ Monitor_Execute
    \/ Monitor_OnIdl
    \/ Monitor_OnAccountInfo
    \/ FetchOne_Execute
    \/ FetchOne_OnIdl
    \/ FetchOne_OnData
    \/ FetchAll_Execute
    \/ FetchAll_OnIdl
    \/ FetchAll_OnAccounts
    \/ FetchByFilter_Execute
    \/ FetchByFilter_OnIdl
    \/ FetchByFilter_OnAccounts
    \/ SearchByPubkey_Execute
    \/ SearchByPubkey_OnIdl
    \/ SearchByPubkey_OnAccounts
    \/ GetByType_Execute
    \/ GetByType_OnIdl
    \/ GetByType_OnAccounts
    \/ Complete

Spec == Init /\ [][Next]_vars

\* SpecDet: the same invocations over fewer seed strings, with an observer
\* that keeps one earlier derivation to compare later ones with.
InitDet ==
    /\ pc = "idle" /\ tool = "none" /\ context = NoContext
    /\ locals = NoLocals /\ net = <<>> /\ ret = NoReturn /\ earlier = NoEarlier
    /\ callerSeeds = DetSeedPool
    /\ AddrIdle /\ SchemaIdle /\ ConcIdle

NextDet ==
    \/ DerivePda_Execute
    \/ DerivePda_OnAccountInfo
    \/ DerivePdaExt_Execute
    \/ DerivePdaExt_OnAccountInfo
    \/ Monitor_Execute
    \/ Monitor_OnIdl
    \/ Monitor_OnAccountInfo
    \/ Complete
    \/ Remember

SpecDet == InitDet /\ [][NextDet]_vars


(***************************************************************************)
(* Claims about derive-pda-address.                                        *)
(***************************************************************************)
DeriveTools == {DerivePda, DerivePdaExt}

\* The invocation in flight is a derivation that has classified its seeds.
Classified ==
    /\ tool \in DeriveTools
    /\ pc \in {"getAccountInfo", "done"}
    /\ "processedSeeds" \in DOMAIN locals

\* The existence query of the invocation in flight has been answered.
Answered == pc = "done" /\ "answer" \in DOMAIN locals

\* s is the text of an address: 32 to 44 characters that decode to 32 bytes.
AddressText(s) ==
    /\ Len(s) >= 32 /\ Len(s) <= 44
    /\ Base58Decode(s).ok
    /\ Len(Base58Decode(s).bytes) = 32

\* b is the hexadecimal decoding of the well-formed string r.
HexDecoding(r, b) ==
    /\ 2 * Len(b) = Len(r)
    /\ \A k \in 1..Len(b) :
          b[k] = 16 * HexValue(r[2 * k - 1]) + HexValue(r[2 * k])

\* The bytes a seed stands for: the hex digits after "0x", the bytes of an
\* address text, or the UTF-8 of the string.
SeedEncoding(seed) ==
    IF StartsWith0x(seed) THEN BufferFromHex(Drop(seed, 2))
    ELSE IF AddressText(seed) THEN Base58Decode(seed).bytes
    ELSE BufferFromUtf8(seed)

\* C1: every seed is classified Hex when it starts with "0x", otherwise
\* Pubkey when it is the text of an address, otherwise String, with the
\* bytes of that reading; an address text is never String and a 0x seed is
\* never Pubkey or String.
C1_ClassificationPriority ==
    Classified =>
        \A i \in 1..Len(context.seeds) :
            LET seed == context.seeds[i]
                p == locals.processedSeeds[i]
            IN  /\ p.type \in {"Hex", "Pubkey", "String"}
                /\ StartsWith0x(seed) =>
                      /\ p.type = "Hex"
                      /\ WellFormedHex(Drop(seed, 2)) =>
                            HexDecoding(Drop(seed, 2), p.buffer)
                /\ (~StartsWith0x(seed) /\ AddressText(seed)) =>
                      /\ p.type = "Pubkey"
                      /\ p.buffer = Base58Decode(seed).bytes
                /\ (~StartsWith0x(seed) /\ ~AddressText(seed)) =>
                      /\ p.type = "String"
                      /\ p.buffer = BufferFromUtf8(seed)
                /\ (pc = "done" /\ ret.kind = "return") =>
                      ret.value.seeds[i].type = p.type

\* A derivation returned for an address seed followed by a hex seed.
C1_Witness ==
    /\ Classified /\ pc = "done" /\ ret.kind = "return"
    /\ context.seeds = <<AddrZero, SeedHex>>
    /\ ret.value.seeds[1].type = "Pubkey"
    /\ ret.value.seeds[2].type = "Hex"

\* C2: n input seeds give n buffers handed to the derivation and n reported
\* seeds; entry i carries index i, the value of input seed i and its
\* encoding, in the input order, duplicates included.
C2_SeedOrderPreserved ==
    Classified =>
        /\ Len(locals.processedSeeds) = Len(context.seeds)
        /\ Len(locals.handed) = Len(context.seeds)
        /\ \A i \in 1..Len(context.seeds) :
              /\ locals.processedSeeds[i].index = i - 1
              /\ locals.processedSeeds[i].originalValue = context.seeds[i]
              /\ locals.handed[i] = SeedEncoding(context.seeds[i])
        /\ pc = "getAccountInfo" => net[Len(net)].address.seeds = locals.handed
        /\ (pc = "done" /\ ret.kind = "return") =>
              /\ Len(ret.value.seeds) = Len(context.seeds)
              /\ \A i \in 1..Len(context.seeds) :
                    /\ ret.value.seeds[i].index = i - 1
                    /\ ret.value.seeds[i].value = context.seeds[i]
                    /\ ret.value.seeds[i].length = Len(locals.handed[i])

\* A derivation returned for two equal seeds and reports both.
C2_Witness ==
    /\ Classified /\ pc = "done" /\ ret.kind = "return"
    /\ context.seeds = <<SeedConfig, SeedConfig>>
    /\ Len(ret.value.seeds) = 2

\* A second witness of order: two different seeds, reported in input order.
C2_OrderedPair ==
    /\ Classified /\ pc = "done" /\ ret.kind = "return"
    /\ context.seeds = <<SeedHex, SeedConfig>>

MalformedHexSeed(seed) == StartsWith0x(seed) /\ ~WellFormedHex(Drop(seed, 2))

\* C3: a derivation given a "0x" seed whose remainder is not well-formed
\* hexadecimal fails; it derives no address from a shortened or empty buffer.
C3_MalformedHexFails ==
    (/\ tool \in DeriveTools
     /\ pc # "idle"
     /\ isValidSolanaAddress(context.programId)
     /\ \E i \in 1..Len(context.seeds) : MalformedHexSeed(context.seeds[i])) =>
        pc = "done" /\ ret.kind = "throw"

\* C4: a derivation called with an empty or absent seed list fails with a
\* caller error before any seed is classified, any address derived or any
\* chain query issued.
C4_EmptySeedsRejected ==
    (/\ tool \in DeriveTools
     /\ pc # "idle"
     /\ (~context.hasSeeds \/ Len(context.seeds) = 0)) =>
        /\ pc = "done"
        /\ ret.kind = "throw"
        /\ ret.message.error \in
              {"Invalid Solana program ID format",
               "At least one seed is required for PDA derivation"}
        /\ isValidSolanaAddress(context.programId) =>
              ret.message.error = "At least one seed is required for PDA derivation"
        /\ net = <<>>
        /\ locals = NoLocals

\* A derivation with a valid program id and an empty seed list was rejected.
C4_Witness ==
    /\ tool \in DeriveTools /\ pc = "done"
    /\ isValidSolanaAddress(context.programId)
    /\ context.hasSeeds /\ context.seeds = <<>>
    /\ ret.kind = "throw"

AllTools ==
    {DerivePda, DerivePdaExt, Monitor, FetchOne, FetchAll, FetchByFilter,
     SearchByPubkey, GetByType}

InvalidProgramIdText == Msg("Invalid Solana program ID format", <<>>)

\* The invocation ended in the invalid-program-id failure of its tool: the
\* monitor returns it as an unsuccessful result, the other tools throw it.
InvalidProgramIdFailure ==
    /\ pc = "done"
    /\ IF tool = Monitor
       THEN /\ ret.kind = "return"
            /\ ~ret.value.success
            /\ ret.value.error = InvalidProgramIdText
       ELSE /\ ret.kind = "throw"
            /\ ret.message = InvalidProgramIdText

\* The invocation ended by throwing the caller error text, before any request.
RejectedWith(text) ==
    /\ pc = "done" /\ ret.kind = "throw" /\ net = <<>>
    /\ ret.message = IF isValidSolanaAddress(context.programId)
                     THEN Msg(text, <<>>)
                     ELSE InvalidProgramIdText

\* C5: validation precedes every network step.  An invocation of any tool
\* whose programId fails isValidSolanaAddress ends in the invalid-program-id
\* failure with no IDL fetch and no chain request issued; fetch-account-data
\* with an invalid account address and search-accounts-by-pubkey with an
\* invalid target address likewise fail before any request.
C5_ValidationBeforeNetwork ==
    /\ (tool \in AllTools /\ pc # "idle"
            /\ ~isValidSolanaAddress(context.programId)) =>
          InvalidProgramIdFailure /\ net = <<>>
    /\ (tool = FetchOne /\ pc # "idle"
            /\ ~isValidSolanaAddress(context.accountAddress)) =>
          RejectedWith("Invalid account address format")
    /\ (tool = SearchByPubkey /\ pc # "idle"
            /\ ~isValidSolanaAddress(context.targetPubkey)) =>
          RejectedWith("Invalid target public key format")

\* An account fetch was asked of a program id of the accepted length that
\* does not decode to 32 bytes.
C5_Witness ==
    /\ tool = FetchOne /\ pc = "done"
    /\ Len(context.programId) = MaxAddressLength
    /\ ~isValidSolanaAddress(context.programId)

ReturnedAddress ==
    IF tool = DerivePda THEN ret.value.address ELSE ret.value.derivation.address

ReturnedBump ==
    IF tool = DerivePda THEN ret.value.bump ELSE ret.value.derivation.bump

SameInputAsEarlier ==
    /\ earlier.present
    /\ tool \in DeriveTools /\ pc = "done" /\ ret.kind = "return"
    /\ context.programId = earlier.programId
    /\ context.seeds = earlier.seeds

\* C6: a derivation returns the address and bump an earlier derivation with
\* the same program id and seed list returned, whatever ran in between and
\* whatever the chain answered.
C6_Deterministic ==
    SameInputAsEarlier =>
        /\ ReturnedAddress = earlier.address
        /\ ReturnedBump = earlier.bump

\* The same input was derived twice with different on-chain status.
C6_Witness ==
    /\ SameInputAsEarlier
    /\ ret.value.onChainStatus.exists # earlier.exists

NullAnswered ==
    /\ tool \in DeriveTools /\ Answered /\ locals.answer.kind = "null"

C8_FailureNotAbsence ==
    (Answered /\ locals.answer.kind = "fail") =>
        ~(/\ ret.kind = "return"
          /\ ret.value.success
          /\ IF tool = Monitor
             THEN ~ret.value.result.accountData.exists
             ELSE ~ret.value.onChainStatus.exists)

(***************************************************************************)
(* Claims about the account data tools.                                    *)
(***************************************************************************)
KeyedTools == {FetchOne, FetchAll, FetchByFilter, SearchByPubkey, GetByType}

\* The IDL fetch of the invocation in flight has answered with an IDL.
IdlAnswered ==
    /\ tool \in KeyedTools
    /\ pc \notin {"idle", "fetchIdl"}
    /\ "idl" \in DOMAIN locals
    /\ locals.idl.present

\* The declarations whose name equals the caller's up to letter case.
CaseMatches ==
    {i \in 1..Len(locals.idl.accounts) :
        toLowerCase(locals.idl.accounts[i].name) = toLowerCase(context.accountName)}

FirstCaseMatch == CHOOSE i \in CaseMatches : \A j \in CaseMatches : i <= j

\* The data request of the invocation, the second request on the wire.
DataRequested == Len(net) = 2 /\ net[2].call \in {"account.fetch", "account.all"}

\* C12: in fetch-account-data, fetch-all-accounts and fetch-accounts-by-filter
\* a name that equals a declaration's up to letter case resolves to the first
\* such declaration, and the data request is addressed by the key made from
\* that declaration's own name, a lower-case initial before the unchanged
\* rest.
C12_CaseInsensitiveResolution ==
    (IdlAnswered /\ tool \in {FetchOne, FetchAll, FetchByFilter}
        /\ CaseMatches # {}) =>
        LET name == locals.idl.accounts[FirstCaseMatch].name
        IN  /\ DataRequested
            /\ net[2].key = <<LowerChar(name[1])>> \o Tail(name)

\* A name in capitals was resolved to the first of two declarations that
\* differ from it in letter case.
C12_Witness ==
    /\ IdlAnswered /\ tool = FetchAll /\ pc = "account.all"
    /\ context.accountName = NameMyVaultUpper
    /\ locals.idl = IdlTwins
    /\ net[2].key = <<"m", "y", "V", "a", "u", "l", "t">>

\* The error the catch block of the invocation caught and wrapped.
CaughtError == ret.message.params[Len(ret.message.params)]

NotFoundText ==
    "Account structure '${accountName}' not found in IDL. Available accounts: ${availableAccounts.join(', ')}"

\* C13: in the account data tools, a name that equals no declaration of the
\* IDL up to letter case fails with the not-found error, whose message lists
\* the name of every declaration of the IDL, and no data request is issued.
C13_NotFoundListsNames ==
    (IdlAnswered /\ CaseMatches = {}) =>
        /\ pc = "done"
        /\ ret.kind = "throw"
        /\ net = <<[call |-> "fetchIdl", address |-> context.programId]>>
        /\ CaughtError.error = NotFoundText
        /\ CaughtError.params[1] = context.accountName
        /\ \A i \in 1..Len(locals.idl.accounts) :
              \E j \in 1..Len(CaughtError.params[2]) :
                  CaughtError.params[2][j] = locals.idl.accounts[i].name

\* A search asked for a name the two declarations of the IDL do not have.
C13_Witness ==
    /\ IdlAnswered /\ tool = SearchByPubkey /\ pc = "done"
    /\ CaseMatches = {}
    /\ Len(locals.idl.accounts) = 2

\* The fetch-pda mode of the monitor has looked its account name up in the IDL.
PdaLookedUp ==
    /\ tool = Monitor /\ pc \notin {"idle", "fetchIdl"}
    /\ context.mode = "fetch-pda"
    /\ context.pdaAccountName # <<>>
    /\ "idl" \in DOMAIN locals

PdaCaseMatches ==
    {i \in 1..Len(locals.idl.accounts) :
        toLowerCase(locals.idl.accounts[i].name)
            = toLowerCase(context.pdaAccountName)}

PdaNotFound ==
    /\ pc = "done"
    /\ ~ret.value.success
    /\ ret.value.error.error = "PDA account '${pdaAccountName}' not found in IDL"

\* C14: the fetch-pda mode of the monitor finds the declaration whose name
\* equals the requested one up to letter case, and when there is none it
\* fails with a not-found error that lists the name of every declaration.
C14_SchemaLookupIgnoresCase ==
    PdaLookedUp =>
        IF PdaCaseMatches # {}
        THEN ~PdaNotFound
        ELSE /\ PdaNotFound
             /\ \A i \in 1..Len(locals.idl.accounts) :
                   \E j \in 1..Len(ret.value.error.params) :
                       ret.value.error.params[j] = locals.idl.accounts[i].name

\* toStorageKey: the first character in lower case, then the rest unchanged.
ToStorageKey(name) ==
    [i \in 1..Len(name) |-> IF i = 1 THEN LowerChar(name[1]) ELSE name[i]]

\* C15: every account data tool turns the name of the declaration it
\* resolved into the same storage key, the name with its first character in
\* lower case and the rest unchanged ("Config" gives "config"), and addresses
\* its data request by that key.
C15_OneStorageKey ==
    (IdlAnswered /\ CaseMatches # {}) =>
        LET name == locals.idl.accounts[FirstCaseMatch].name
        IN  /\ locals.camelCaseAccountName = ToStorageKey(name)
            /\ Len(net) = 2 /\ net[2].key = ToStorageKey(name)
            /\ name = NameConfig => net[2].key = NameConfigLower

\* get-program-accounts-by-type made the key of a two-word name.
C15_Witness ==
    /\ IdlAnswered /\ tool = GetByType /\ pc = "account.all"
    /\ CaseMatches # {}
    /\ locals.idl.accounts[FirstCaseMatch].name = NameMyVault
    /\ net[2].key = <<"m", "y", "V", "a", "u", "l", "t">>

BulkTools == {FetchAll, FetchByFilter, SearchByPubkey}

\* The bulk fetch of the invocation has answered with a list of records.
BulkAnswered ==
    /\ tool \in BulkTools /\ Answered
    /\ locals.answer.kind = "accounts"

\* The records found (fetch-all-accounts) or matched (filter, search), in
\* scan order.
Found ==
    IF tool = FetchAll THEN locals.answer.accounts
    ELSE IF tool = FetchByFilter
    THEN filteredAccounts(locals.answer.accounts, context.filters)
    ELSE matchingAccounts(locals.answer.accounts, context.targetPubkey)

EffectiveLimit == LimitOr(context, IF tool = FetchAll THEN 50 ELSE 20)

ReportedTotal ==
    IF tool = FetchAll THEN ret.value.totalFound ELSE ret.value.totalMatched

\* C16: a bulk operation that found or matched T records under limit L
\* returns successfully, reports the total T, returns exactly the first
\* min(T, L) of them in scan order, and reports hasMore exactly when T > L.
C16_Pagination ==
    BulkAnswered =>
        /\ ret.kind = "return"
        /\ ReportedTotal = Len(Found)
        /\ Len(ret.value.accounts) =
              IF Len(Found) < EffectiveLimit THEN Len(Found) ELSE EffectiveLimit
        /\ \A i \in 1..Len(ret.value.accounts) :
              /\ ret.value.accounts[i].address = Found[i].publicKey
              /\ ret.value.accounts[i].data = Found[i].account
        /\ ret.value.hasMore = (Len(Found) > EffectiveLimit)

\* A filtered fetch matched more records than its limit of one.
C16_Witness ==
    /\ BulkAnswered /\ tool = FetchByFilter
    /\ context.hasLimit /\ context.limit = 1
    /\ Len(context.filters) > 0
    /\ Len(Found) = 2
    /\ ret.value.hasMore

\* A filtered fetch has answered with a list of records.
FilterAnswered == BulkAnswered /\ tool = FetchByFilter

\* The fetched records every filter of the request matches.
MatchingAll ==
    {i \in 1..Len(locals.answer.accounts) :
        \A k \in 1..Len(context.filters) :
            filterMatches(locals.answer.accounts[i].account, context.filters[k])}

\* C17: fetch-accounts-by-filter matches a record exactly when every filter
\* of the list matches it: with two filters only the records matching both
\* are returned, with no filter every fetched record is matched.
C17_FilterConjunction ==
    FilterAnswered =>
        /\ ret.kind = "return"
        /\ ret.value.totalMatched = Cardinality(MatchingAll)
        /\ \A j \in 1..Len(ret.value.accounts) :
              \E i \in MatchingAll :
                  /\ ret.value.accounts[j].address
                        = locals.answer.accounts[i].publicKey
                  /\ ret.value.accounts[j].data
                        = locals.answer.accounts[i].account
        /\ context.filters = <<>> =>
              ret.value.totalMatched = Len(locals.answer.accounts)

\* Of two fetched records, two different filters matched one and left out
\* one that a single filter of the two matches.
C17_Witness ==
    /\ FilterAnswered
    /\ Len(context.filters) = 2 /\ context.filters[1] # context.filters[2]
    /\ Len(locals.answer.accounts) = 2
    /\ ret.value.totalMatched = 1
    /\ \E i \in 1..2 :
          /\ i \notin MatchingAll
          /\ \E k \in 1..2 : filterMatches(locals.answer.accounts[i].account,
                                           context.filters[k])

\* One filter's match as C18 states it: the field is present, and an
\* address equals the value in base58 text, a big integer equals the string
\* form of the value in decimal, any other value equals it as a primitive.
StatedMatch(account, filter) ==
    /\ HasField(account, filter.field)
    /\ LET fieldValue == FieldOf(account, filter.field)
       IN  CASE fieldValue.kind = "pubkey" ->
                   filter.value.kind = "string" /\ fieldValue.text = filter.value.text
             [] fieldValue.kind = "bn" ->
                   fieldValue.text = ToStringOf(filter.value)
             [] OTHER ->
                   /\ fieldValue.kind = filter.value.kind
                   /\ fieldValue.kind \in {"string", "number", "boolean"}
                   /\ fieldValue.text = filter.value.text
                   /\ fieldValue.num = filter.value.num
                   /\ fieldValue.flag = filter.value.flag

\* C18: a single filter matches a record exactly as StatedMatch says.
C18_FilterPredicate ==
    (FilterAnswered /\ Len(context.filters) = 1) =>
        /\ ret.kind = "return"
        /\ ret.value.totalMatched =
              Cardinality({i \in 1..Len(locals.answer.accounts) :
                  StatedMatch(locals.answer.accounts[i].account,
                              context.filters[1])})

\* A search has answered with a list of records.
SearchAnswered == BulkAnswered /\ tool = SearchByPubkey

\* A set of values together with the values directly inside its objects.
WithMembers(S) == S \cup UNION {{v.items[i] : i \in 1..Len(v.items)} : v \in S}

\* Every value of a record, at any of the nesting depths the records have.
ValuesOf(account) ==
    WithMembers(WithMembers(WithMembers(
        {account[i].value : i \in 1..Len(account)})))

\* The record holds the target as an address or as a string, at some depth.
HoldsTarget(account) ==
    \E v \in ValuesOf(account) :
        v.kind \in {"pubkey", "string"} /\ v.text = context.targetPubkey

\* C19: search-accounts-by-pubkey matches a record exactly when the target is
\* somewhere in it, at any nesting depth, as an address whose base58 text is
\* the target or as a string equal to the target.
C19_SearchAnyDepth ==
    SearchAnswered =>
        /\ ret.kind = "return"
        /\ ret.value.totalMatched =
              Cardinality({i \in 1..Len(locals.answer.accounts) :
                              HoldsTarget(locals.answer.accounts[i].account)})
        /\ \A j \in 1..Len(ret.value.accounts) :
              HoldsTarget(ret.value.accounts[j].data)

\* Of two fetched records the search returned the one holding the target two
\* objects deep, and not the other.
C19_Witness ==
    /\ SearchAnswered
    /\ Len(locals.answer.accounts) = 2
    /\ ret.value.totalMatched = 1
    /\ ret.value.accounts[1].data = RecordNested.account
    /\ \A i \in 1..Len(RecordNested.account) :
          RecordNested.account[i].value.kind \in {"pubkey", "string"} =>
              RecordNested.account[i].value.text # context.targetPubkey

(***************************************************************************)
(* SpecWalk: searchInObject applied to an object graph.                    *)
(*                                                                         *)
(* The decoder answers trees, and over trees searchInObject is the         *)
(* operator of that name above.  A JavaScript object may also hold a       *)
(* reference to itself or to an object that holds it.  Here the values     *)
(* live in a heap: a node is a leaf value or an object whose members are   *)
(* references to nodes, and node 1 is the value the search is called on.   *)
(***************************************************************************)
HeapSize == 2       \* number of values in the heap
MaxMembers == 2     \* most members an object of the heap has

\* Frames the engine grants before it throws RangeError; one more than the
\* deepest walk an acyclic heap of this size asks for.
CallStackLimit == HeapSize + 1

SearchInObject == "searchInObject"

StackExhaustedText == "Maximum call stack size exceeded"

HeapLeaves == {PubkeyVal(Addr43), StrVal(AddrZero), NumVal(1)}

HeapObjects == {ObjVal(m) : m \in SeqsUpTo(1..HeapSize, MaxMembers)}

Heaps == [1..HeapSize -> HeapLeaves \cup HeapObjects]

WalkTargets == {Addr43, AddrZero}

\* searchInObject over the heap h, called on node n with depth frames of it
\* already on the stack.  Object.values(obj).some(searchInObject) visits the
\* members in order and stops at the first true; no frame counts its depth
\* and no set remembers the objects already entered, so only the engine's
\* stack ends a walk that keeps descending, by a RangeError that leaves
\* every frame.
RECURSIVE searchInHeap(_, _, _, _)
RECURSIVE someFrom(_, _, _, _, _)
searchInHeap(h, n, targetPubkey, depth) ==
    IF depth >= CallStackLimit THEN "RangeError"
    ELSE CASE h[n].kind = "null" -> "false"
           [] h[n].kind = "pubkey" ->
                 IF h[n].text = targetPubkey THEN "true" ELSE "false"
           [] h[n].kind = "string" ->
                 IF h[n].text = targetPubkey THEN "true" ELSE "false"
           [] h[n].kind = "object" ->
                 someFrom(h, h[n].items, 1, targetPubkey, depth + 1)
           [] OTHER -> "false"

\* Array.prototype.some from member i on.
someFrom(h, members, i, targetPubkey, depth) ==
    IF i > Len(members) THEN "false"
    ELSE LET r == searchInHeap(h, members[i], targetPubkey, depth)
         IN  IF r = "false"
             THEN someFrom(h, members, i + 1, targetPubkey, depth)
             ELSE r

\* The nodes the walk can reach from node n.
RECURSIVE ReachableFrom(_, _)
ReachableFrom(h, S) ==
    LET T == S \cup UNION {{h[n].items[i] : i \in 1..Len(h[n].items)} :
                              n \in {m \in S : h[m].kind = "object"}}
    IN  IF T = S THEN S ELSE ReachableFrom(h, T)

\* Some object the walk reaches is reachable from its own members.
Cyclic(h) ==
    \E n \in ReachableFrom(h, {1}) :
        /\ h[n].kind = "object"
        /\ n \in ReachableFrom(h, {h[n].items[i] : i \in 1..Len(h[n].items)})

InitWalk ==
    /\ pc = "call" /\ tool = SearchInObject
    /\ \E t \in WalkTargets : context = [targetPubkey |-> t]
    /\ \E h \in Heaps : locals = [heap |-> h]
    /\ net = <<>> /\ ret = NoReturn /\ earlier = NoEarlier /\ callerSeeds = {}
    /\ AddrIdle /\ SchemaIdle /\ ConcIdle

\* searchInObject(acc.account) inside the filter callback.
SearchInObject_Call ==
    /\ pc = "call" /\ tool = SearchInObject
    /\ LET r == searchInHeap(locals.heap, 1, context.targetPubkey, 0)
       IN  Finish(IF r = "RangeError"
                  THEN Thrown(Msg(StackExhaustedText, <<>>))
                  ELSE Returned(r = "true"),
                  locals)
    /\ UNCHANGED <<tool, context, earlier, callerSeeds, addrVars, schemaVars, concVars>>

NextWalk == SearchInObject_Call

SpecWalk == InitWalk /\ [][NextWalk]_vars

WalkEnded == pc = "done" /\ tool = SearchInObject

WalkOfTreesEnds ==
    WalkEnded /\ ~Cyclic(locals.heap) => ret.kind = "return"

\* The walk of a value that holds itself and not the target ended by
\* exhausting the stack.
CyclicWalkOverflows ==
    /\ WalkEnded
    /\ locals.heap[1] = ObjVal(<<1>>)
    /\ ret = Thrown(Msg(StackExhaustedText, <<>>))

(***************************************************************************)
(* Claims about the failures of the account data tools.                    *)
(***************************************************************************)
LookupTools == {FetchOne, FetchAll, FetchByFilter, SearchByPubkey}

\* The invocation ended where fetchIdl answered for a program id under which
\* nothing is deployed (deployed records the situation behind the answer).
EndedUndeployed ==
    /\ pc = "done" /\ tool \in LookupTools
    /\ "deployed" \in DOMAIN locals
    /\ ~locals.deployed

\* The failure the tools report for a deployed program without an IDL.
InterfaceNotFound(r) ==
    /\ r.kind = "throw"
    /\ r.message.params = <<Msg("No IDL found for this program", <<>>)>>

\* C21: fetch-account-data, fetch-all-accounts, fetch-accounts-by-filter and
\* search-accounts-by-pubkey fail for a valid program id with no deployed
\* program, and with an error other than the one they report for a deployed
\* program that has no published IDL.
C21_ProgramNotFoundDistinct ==
    EndedUndeployed => ret.kind = "throw" /\ ~InterfaceNotFound(ret)

\* The bulk fetch of the invocation met a stored record that does not decode.
BulkDecodeFailed ==
    /\ tool \in BulkTools /\ Answered
    /\ "others" \in DOMAIN locals.answer

\* The single fetch of the invocation met a record that does not decode.
SingleDecodeFailed ==
    /\ tool = FetchOne /\ Answered
    /\ locals.answer.kind = "fail"
    /\ locals.answer.message = "Invalid account discriminator"

\* C22: a record that does not decode is left out of a bulk scan, which still
\* returns (fetch-all-accounts returns every other record), while it fails
\* fetch-account-data as a whole.
C22_DecodeFailureSkipsRecord ==
    /\ BulkDecodeFailed => ret.kind = "return"
    /\ BulkDecodeFailed /\ tool = FetchAll /\ ret.kind = "return" =>
          ret.value.totalFound = Len(locals.answer.others)
    /\ SingleDecodeFailed => ret.kind = "throw"

(***************************************************************************)
(* Claims about anchor-program-monitor.                                    *)
(***************************************************************************)
MonitorEnded == pc = "done" /\ tool = Monitor

MaxTypeDepth == 2   \* deepest nesting of composite descriptors
MaxArrayLen == 2    \* longest array length tried, besides one of 33

GetFieldSize == "getFieldSize"

FieldTypeNames ==
    {"bool", "u8", "i8", "u16", "i16", "u32", "i32", "u64", "i64", "u128",
     "i128", "f32", "f64", "publicKey", "string", "bytes", "mystery"}

NamedType(name) == [kind |-> "name", name |-> name]
AbsentType == [kind |-> "absent"]
DefinedType(name) == [kind |-> "defined", name |-> name]
VecType(t) == [kind |-> "vec", of |-> t]
OptionType(t) == [kind |-> "option", of |-> t]
ArrayType(t, n) == [kind |-> "array", of |-> t, len |-> n]

ArrayLens == 0..MaxArrayLen \cup {33}

PlainTypes ==
    {NamedType(n) : n \in FieldTypeNames} \cup {AbsentType, DefinedType("Inner")}

RECURSIVE FieldTypes(_)
FieldTypes(depth) ==
    IF depth = 0 THEN PlainTypes
    ELSE LET inner == FieldTypes(depth - 1)
         IN  PlainTypes
             \cup {VecType(t) : t \in inner}
             \cup {OptionType(t) : t \in inner}
             \cup {ArrayType(t, n) : t \in inner, n \in ArrayLens}

\* getFieldSize: the switch over type names, then the object keys in the
\* order vec, option, array; array[1] || 1 reads a length of 0 as 1.
RECURSIVE getFieldSize(_)
getFieldSize(fieldType) ==
    IF fieldType.kind = "name"
    THEN CASE fieldType.name \in {"bool", "u8", "i8"} -> 1
           [] fieldType.name \in {"u16", "i16"} -> 2
           [] fieldType.name \in {"u32", "i32", "f32"} -> 4
           [] fieldType.name \in {"u64", "i64", "f64"} -> 8
           [] fieldType.name \in {"u128", "i128"} -> 16
           [] fieldType.name = "publicKey" -> 32
           [] fieldType.name = "string" -> 32
           [] OTHER -> 8
    ELSE IF fieldType.kind = "vec" THEN 32
    ELSE IF fieldType.kind = "option" THEN getFieldSize(fieldType.of) + 1
    ELSE IF fieldType.kind = "array"
    THEN getFieldSize(fieldType.of) * (IF fieldType.len = 0 THEN 1 ELSE fieldType.len)
    ELSE 8

InitSize ==
    /\ pc = "call" /\ tool = GetFieldSize
    /\ \E t \in FieldTypes(MaxTypeDepth) : context = [fieldType |-> t]
    /\ locals = NoLocals /\ net = <<>> /\ ret = NoReturn
    /\ earlier = NoEarlier /\ callerSeeds = {}
    /\ AddrIdle /\ SchemaIdle /\ ConcIdle

\* getFieldSize(field.type) as listPdaStructures calls it for every field.
GetFieldSize_Call ==
    /\ pc = "call" /\ tool = GetFieldSize
    /\ Finish(Returned(getFieldSize(context.fieldType)), locals)
    /\ UNCHANGED <<tool, context, earlier, callerSeeds, addrVars, schemaVars, concVars>>

NextSize == GetFieldSize_Call

SpecSize == InitSize /\ [][NextSize]_vars

SizeEnded == pc = "done" /\ tool = GetFieldSize

\* The estimate stated for a descriptor that is not composite.
StatedSize(t) ==
    IF t.kind # "name" THEN 8
    ELSE CASE t.name \in {"bool", "u8", "i8"} -> 1
           [] t.name \in {"u16", "i16"} -> 2
           [] t.name \in {"u32", "i32", "f32"} -> 4
           [] t.name \in {"u64", "i64", "f64"} -> 8
           [] t.name \in {"u128", "i128"} -> 16
           [] t.name = "publicKey" -> 32
           [] t.name \in {"string", "bytes"} -> 32
           [] OTHER -> 8

\* C24: the size estimate never fails and, for a descriptor that is not
\* composite, is 1 for bool and the 8-bit types, 2 for 16-bit, 4 for 32-bit
\* and f32, 8 for 64-bit and f64, 16 for 128-bit, 32 for an address, 32 for
\* text and for bytes, and 8 for anything else, an absent descriptor included.
C24_PrimitiveSizes ==
    SizeEnded =>
        /\ ret.kind = "return"
        /\ context.fieldType.kind \in {"name", "absent", "defined"} =>
              ret.value = StatedSize(context.fieldType)

\* C25: the estimate of an option is the estimate of its element plus 1, and
\* the estimate of an array is the estimate of its element times its length,
\* for every length from 0 on and at every nesting depth.
C25_Compositional ==
    SizeEnded /\ ret.kind = "return" =>
        /\ context.fieldType.kind = "option" =>
              ret.value = getFieldSize(context.fieldType.of) + 1
        /\ context.fieldType.kind = "array" =>
              ret.value = getFieldSize(context.fieldType.of) * context.fieldType.len

\* anchor-program-monitor in fetch-pda mode has derived an address.
MonitorDerived ==
    /\ tool = Monitor /\ pc \in {"getAccountInfo", "done"}
    /\ context.mode = "fetch-pda"
    /\ "derivedPda" \in DOMAIN locals
    /\ locals.derivedPda # NoAddress

\* What derive-pda-address derives from the same program id and seeds.
DerivedByDeriveTool ==
    findProgramAddressSync(seedBuffers(processedSeeds(context.seeds)),
                           NewPublicKey(context.programId).bytes)

\* C27: for one program id and one non-empty seed list, the address that the
\* fetch-pda mode of anchor-program-monitor derives is the address that
\* derive-pda-address derives, seeds written as 0x hex or as an address
\* included.
C27_DerivationsAgree ==
    MonitorDerived /\ DerivedByDeriveTool.ok =>
        locals.derivedPda = DerivedByDeriveTool.address

(***************************************************************************)
(* SpecLazor: the memoized getters of one LazorKitProgram instance.        *)
(*                                                                         *)
(* locals holds the private fields _program, _smartWalletSeq and _config,  *)
(* context the connection given to the constructor, net the constructions  *)
(* and derivations executed so far, ret the value of the last read, and    *)
(* earlier, for each getter, the value it returned when first read and the *)
(* number of times it was read.                                            *)
(***************************************************************************)
MaxReads == 4       \* reads of getters one instance serves

LazorKit == "LazorKitProgram"

Connections == {"devnet", "mainnet"}

Getters == {"program", "programId", "smartWalletSeq", "config"}

\* The address field of the IDL the class imports.
LazorkitProgramId == NewPublicKey(Addr43).bytes

CONFIG_SEED == BufferFromUtf8(<<"c", "o", "n", "f", "i", "g">>)
SMART_WALLET_SEQ_SEED == BufferFromUtf8(<<"s", "e", "q">>)

NotCached == [set |-> FALSE]
CachedAs(v) == [set |-> TRUE, value |-> v]

NotRead == [read |-> FALSE, times |-> 0]
ReadAgain(first, v) ==
    [read |-> TRUE, value |-> IF first.read THEN first.value ELSE v,
     times |-> first.times + 1]

RECURSIVE SumOver(_, _)
SumOver(f, S) ==
    IF S = {} THEN 0
    ELSE LET x == CHOOSE y \in S : TRUE IN f[x] + SumOver(f, S \ {x})

\* new anchor.Program(this.Idl, {connection}): a fresh object each time, told
\* apart by serial.
NewProgram(connection, serial) ==
    [idl |-> "lazorkit", connection |-> connection,
     programId |-> LazorkitProgramId, serial |-> serial]

\* A getter's test of its field with the field taken as never set.
isCachedNever(slot) == FALSE

\* !this._program, !this._smartWalletSeq, !this._config, negated.
isCached(slot) == slot.set

\* get program(): the outcome is the fields, the value and the log after it.
programGetter(fields, connection, log) ==
    IF ~isCached(fields._program)
    THEN LET p == NewProgram(connection, Len(log) + 1)
         IN  [fields |-> [fields EXCEPT !._program = CachedAs(p)],
              value |-> p,
              log |-> Append(log, "new anchor.Program")]
    ELSE [fields |-> fields, value |-> fields._program.value, log |-> log]

\* get programId()
programIdGetter(fields, connection, log) ==
    LET p == programGetter(fields, connection, log)
    IN  [fields |-> p.fields, value |-> p.value.programId, log |-> p.log]

\* get smartWalletSeq()
smartWalletSeqGetter(fields, connection, log) ==
    IF ~isCached(fields._smartWalletSeq)
    THEN LET id == programIdGetter(fields, connection, log)
             pda == findProgramAddressSync(<<SMART_WALLET_SEQ_SEED>>, id.value).address
         IN  [fields |-> [id.fields EXCEPT !._smartWalletSeq = CachedAs(pda)],
              value |-> pda,
              log |-> Append(id.log, "findProgramAddressSync smartWalletSeq")]
    ELSE [fields |-> fields, value |-> fields._smartWalletSeq.value, log |-> log]

\* get config()
configGetter(fields, connection, log) ==
    IF ~isCached(fields._config)
    THEN LET id == programIdGetter(fields, connection, log)
             pda == findProgramAddressSync(<<CONFIG_SEED>>, id.value).address
         IN  [fields |-> [id.fields EXCEPT !._config = CachedAs(pda)],
              value |-> pda,
              log |-> Append(id.log, "findProgramAddressSync config")]
    ELSE [fields |-> fields, value |-> fields._config.value, log |-> log]

\* The state after new LazorKitProgram(connection).
InitLazor ==
    /\ pc = "ready" /\ tool = LazorKit
    /\ \E c \in Connections : context = [connection |-> c]
    /\ locals = [_program |-> NotCached, _smartWalletSeq |-> NotCached,
                 _config |-> NotCached]
    /\ net = <<>> /\ ret = NoReturn
    /\ earlier = [g \in Getters |-> NotRead]
    /\ callerSeeds = {}
    /\ AddrIdle /\ SchemaIdle /\ ConcIdle

\* A caller reads getter g, whose outcome is r.
ReadGetter(g, r) ==
    /\ pc = "ready" /\ tool = LazorKit
    /\ SumOver([h \in Getters |-> earlier[h].times], Getters) < MaxReads
    /\ net' = r.log
    /\ locals' = r.fields
    /\ ret' = Returned([getter |-> g, value |-> r.value])
    /\ earlier' = [earlier EXCEPT ![g] = ReadAgain(earlier[g], r.value)]
    /\ UNCHANGED <<pc, tool, context, callerSeeds, addrVars, schemaVars, concVars>>

Read_program ==
    ReadGetter("program", programGetter(locals, context.connection, net))

Read_programId ==
    ReadGetter("programId", programIdGetter(locals, context.connection, net))

Read_smartWalletSeq ==
    ReadGetter("smartWalletSeq",
               smartWalletSeqGetter(locals, context.connection, net))

Read_config ==
    ReadGetter("config", configGetter(locals, context.connection, net))

NextLazor ==
    \/ Read_program
    \/ Read_programId
    \/ Read_smartWalletSeq
    \/ Read_config

SpecLazor == InitLazor /\ [][NextLazor]_vars

\* What getter g computes from the connection with nothing cached; a program
\* handle is compared without its serial.
Uncached(g, connection) ==
    CASE g = "program" -> NewProgram(connection, 0)
      [] g = "programId" -> LazorkitProgramId
      [] g = "smartWalletSeq" ->
            findProgramAddressSync(<<SMART_WALLET_SEQ_SEED>>, LazorkitProgramId).address
      [] g = "config" ->
            findProgramAddressSync(<<CONFIG_SEED>>, LazorkitProgramId).address

SameValue(g, v, w) ==
    IF g = "program" THEN v = [w EXCEPT !.serial = v.serial] ELSE v = w

Occurrences(log, e) == Cardinality({i \in 1..Len(log) : log[i] = e})

\* C30 (what every state shows): a read returns what the first read of that
\* getter returned, which is what the uncached computation yields, and each
\* construction or derivation has been executed at most once.
MemoizedReads ==
    tool = LazorKit =>
        /\ ret.kind = "return" =>
              /\ ret.value.value = earlier[ret.value.getter].value
              /\ SameValue(ret.value.getter, ret.value.value,
                           Uncached(ret.value.getter, context.connection))
        /\ \A i \in 1..Len(net) : Occurrences(net, net[i]) = 1

\* C30 (what every step shows): a field once set keeps its value.
CacheKept ==
    tool = LazorKit =>
        \A f \in {"_program", "_smartWalletSeq", "_config"} :
            locals[f].set => locals'[f] = locals[f]

\* C30: the program, config and smartWalletSeq getters of a LazorKitProgram
\* are memoized safely: every read returns the value of the first read, equal
\* to an uncached computation from the same connection, IDL and program id;
\* each construction or derivation runs at most once per instance; and a
\* cached value is never changed or dropped.
C30_MemoizedGetters == [](MemoizedReads) /\ [][CacheKept]_vars

\* config was read twice and smartWalletSeq once, with one construction of
\* the program handle and one derivation each behind them.
C30_Witness ==
    /\ tool = LazorKit
    /\ ret.kind = "return" /\ ret.value.getter = "config"
    /\ earlier["config"].times = 2 /\ earlier["smartWalletSeq"].times = 1
    /\ locals._config.set /\ locals._smartWalletSeq.set /\ locals._program.set
    /\ Len(net) = 3

(***************************************************************************)
(* solana-tx-monitor.                                                      *)
(*                                                                         *)
(* The handler asks for the signatures of an address and then for the      *)
(* detail of every signature, five requests at a time.  The callbacks of   *)
(* one batch run as their requests are answered, in any order; each adds   *)
(* to the handler's totalFees and programInteractions.                     *)
(***************************************************************************)
MaxSigs == 6        \* signatures the chain holds for an address, at most

BatchSize == 5

TxMonitor == "solana-tx-monitor"

TxAddresses == {Addr43, BadProgramId}

\* programFilter: absent, or the id of the system program.
ProgramFilters == {[hasFilter |-> FALSE, value |-> <<>>],
                   [hasFilter |-> TRUE, value |-> AddrZero]}

\* limit: 0 stands for the values that limit || 20 replaces by 20.
TxLimits == {0, 1}

\* The table of getProgramName, of which the model uses the system program.
getProgramName(programId) ==
    IF programId = AddrZero THEN "System Program" ELSE "Unknown Program"

ProgramNames == {"System Program", "Unknown Program"}

\* Transactions getTransaction can answer: the programs of the compiled
\* instructions, the fee, and the balances before and after.
TxSystem ==
    [fee |-> 5000, programs |-> <<AddrZero>>,
     balances |-> <<[pre |-> 9000, post |-> 4000]>>]
TxOther ==
    [fee |-> 7000, programs |-> <<Addr43, AddrZero, Addr43>>,
     balances |-> <<[pre |-> 8000, post |-> 1000], [pre |-> 0, post |-> 0]>>]
TxPlain ==
    [fee |-> 3000, programs |-> <<Addr43>>, balances |-> <<>>]

\* What connection.getTransaction can answer.
TxOutcomes ==
    {[kind |-> "fail"], [kind |-> "null"]}
    \cup {[kind |-> "tx", tx |-> t] : t \in {TxSystem, TxOther, TxPlain}}

\* The signature records of getSignaturesForAddress, newest first.
SignatureList(n) == [k \in 1..n |-> [signature |-> k, slot |-> 100 - k]]

Pending == [state |-> "pending"]
Null == [state |-> "null"]
Fulfilled(t) == [state |-> "tx", tx |-> t]

\* The object the callback of batch.map returns for a fetched transaction.
txRecord(sig, tx) ==
    [signature |-> sig.signature,
     slot |-> sig.slot,
     fee |-> tx.fee,
     programInstructions |->
        [j \in 1..Len(tx.programs) |->
            [programId |-> tx.programs[j],
             programName |-> getProgramName(tx.programs[j]),
             instruction |-> j - 1]],
     balanceChanges |->
        [j \in 1..Len(tx.balances) |->
            [before |-> tx.balances[j].pre, after |-> tx.balances[j].post,
             change |-> tx.balances[j].post - tx.balances[j].pre]],
     tokenTransfers |-> <<>>]

\* programInstructions.forEach: one more interaction per instruction.
RECURSIVE countInteractions(_, _)
countInteractions(programInteractions, instructions) ==
    IF instructions = <<>> THEN programInteractions
    ELSE countInteractions(
            [programInteractions EXCEPT ![Head(instructions).programName] = @ + 1],
            Tail(instructions))

\* signatures.slice(i, length): every remaining signature in one batch.
batchOfAll(signatures, i) == SubSeq(signatures, i + 1, Len(signatures))

\* signatures.slice(i, i + 5)
batchOf(signatures, i) ==
    SubSeq(signatures, i + 1,
           IF i + BatchSize < Len(signatures) THEN i + BatchSize
           ELSE Len(signatures))

\* The getTransaction requests of one batch, issued as batch.map runs.
batchCalls(batch) ==
    [k \in 1..Len(batch) |->
        [call |-> "getTransaction", signature |-> batch[k].signature]]

\* batchTransactions.filter((tx) => tx !== null)
RECURSIVE fetchedOf(_)
fetchedOf(batchTransactions) ==
    IF batchTransactions = <<>> THEN <<>>
    ELSE IF Head(batchTransactions).state = "tx"
    THEN <<Head(batchTransactions).tx>> \o fetchedOf(Tail(batchTransactions))
    ELSE fetchedOf(Tail(batchTransactions))

Abs(n) == IF n < 0 THEN 0 - n ELSE n

RECURSIVE SumOf(_)
SumOf(numbers) ==
    IF numbers = <<>> THEN 0 ELSE Head(numbers) + SumOf(Tail(numbers))

\* The reduce over balanceChanges of Math.abs(change.change).
totalChange(tx) ==
    SumOf([j \in 1..Len(tx.balanceChanges) |-> Abs(tx.balanceChanges[j].change)])

\* The quotient sum / length, kept as its two terms; 0 for an empty list.
averageTransactionSize(filteredTransactions) ==
    IF Len(filteredTransactions) > 0
    THEN [sum |-> SumOf([j \in 1..Len(filteredTransactions) |->
                            totalChange(filteredTransactions[j])]),
          over |-> Len(filteredTransactions)]
    ELSE [sum |-> 0, over |-> 1]

\* transactions.filter((tx) => tx.programInstructions.some(...)) when a
\* programFilter is given.
filteredTransactions(transactions, programFilter) ==
    IF programFilter.hasFilter
    THEN SelectSeq(transactions,
                   LAMBDA tx : \E j \in 1..Len(tx.programInstructions) :
                       tx.programInstructions[j].programId = programFilter.value)
    ELSE transactions

\* The object the handler returns after the loop.
txMonitorResult(address, programFilter, transactions, programInteractions, totalFees) ==
    LET filtered == filteredTransactions(transactions, programFilter)
    IN  [address |-> address,
         transactions |-> filtered,
         analytics |->
            [totalTransactions |-> Len(filtered),
             totalFees |-> totalFees,
             programInteractions |-> programInteractions,
             averageTransactionSize |-> averageTransactionSize(filtered)]]

NoInteractions == [n \in ProgramNames |-> 0]

\* solana-tx-monitor: execute up to getSignaturesForAddress.
Tx_Execute ==
    /\ pc = "idle"
    /\ \E a \in TxAddresses, lim \in TxLimits, f \in ProgramFilters :
        /\ tool' = TxMonitor
        /\ context' = [address |-> a, limit |-> lim, programFilter |-> f]
        /\ IF ~isValidSolanaAddress(a)
           THEN Finish(Thrown(Msg("Invalid Solana address format", <<>>)), NoLocals)
           ELSE Await("getSignaturesForAddress",
                      [call |-> "getSignaturesForAddress", address |-> a,
                       limit |-> IF lim = 0 THEN 20 ELSE lim],
                      NoLocals)
    /\ UNCHANGED <<earlier, callerSeeds, addrVars, schemaVars, concVars>>

\* solana-tx-monitor: the signatures answered, up to the requests of the
\* first batch.
Tx_OnSignatures ==
    /\ pc = "getSignaturesForAddress" /\ tool = TxMonitor
    /\ \/ Finish(Thrown(Wrapped("Failed to fetch Solana transactions: ",
                                "fetch failed")), NoLocals)
       \/ \E n \in 0..history :
            /\ n <= (IF context.limit = 0 THEN 20 ELSE context.limit)
            /\ LET signatures == SignatureList(n)
                   batch == batchOf(signatures, 0)
               IN  IF n = 0
                   THEN Finish(Returned(txMonitorResult(
                            context.address, [hasFilter |-> FALSE, value |-> <<>>],
                            <<>>, NoInteractions, 0)),
                            [signatures |-> signatures])
                   ELSE /\ pc' = "getTransaction"
                        /\ ret' = NoReturn
                        /\ net' = net \o batchCalls(batch)
                        /\ locals' = [signatures |-> signatures, i |-> 0,
                                      batchTransactions |->
                                          [k \in 1..Len(batch) |-> Pending],
                                      transactions |-> <<>>,
                                      programInteractions |-> NoInteractions,
                                      totalFees |-> 0]
    /\ UNCHANGED <<tool, context, earlier, callerSeeds, addrVars, schemaVars, concVars>>

\* solana-tx-monitor: one getTransaction of the batch answered and its
\* callback ran; when it was the last of the batch, Promise.all resolves and
\* the loop goes on to the next batch or to the result.
Tx_OnTransaction ==
    /\ pc = "getTransaction" /\ tool = TxMonitor
    /\ \E k \in 1..Len(locals.batchTransactions), o \in TxOutcomes :
        /\ locals.batchTransactions[k] = Pending
        /\ LET sig == locals.signatures[locals.i + k]
               fetched == o.kind = "tx"
               record == txRecord(sig, o.tx)
               programInteractions ==
                   IF fetched
                   THEN countInteractions(locals.programInteractions,
                                          record.programInstructions)
                   ELSE locals.programInteractions
               totalFees ==
                   IF fetched THEN locals.totalFees + o.tx.fee ELSE locals.totalFees
               batchTransactions ==
                   [locals.batchTransactions EXCEPT
                       ![k] = IF fetched THEN Fulfilled(record) ELSE Null]
               settled == \A j \in 1..Len(batchTransactions) :
                              batchTransactions[j] # Pending
               transactions == locals.transactions \o fetchedOf(batchTransactions)
               i == locals.i + BatchSize
               batch == batchOf(locals.signatures, i)
               l == [locals EXCEPT !.programInteractions = programInteractions,
                                   !.totalFees = totalFees,
                                   !.batchTransactions = batchTransactions]
           IN  IF ~settled
               THEN /\ pc' = pc /\ ret' = ret /\ net' = net /\ locals' = l
               ELSE IF i < Len(locals.signatures)
               THEN /\ pc' = pc /\ ret' = ret
                    /\ net' = net \o batchCalls(batch)
                    /\ locals' = [l EXCEPT !.i = i,
                                           !.transactions = transactions,
                                           !.batchTransactions =
                                               [j \in 1..Len(batch) |-> Pending]]
               ELSE Finish(Returned(txMonitorResult(
                        context.address, context.programFilter, transactions,
                        programInteractions, totalFees)),
                        [l EXCEPT !.i = i, !.transactions = transactions])
    /\ UNCHANGED <<tool, context, earlier, callerSeeds, addrVars, schemaVars, concVars>>

(***************************************************************************)
(* solana-account-analyzer.                                                *)
(*                                                                         *)
(* After the account and its balance, the handler fetches the metadata of  *)
(* every token account, five at a time: fetchTokenMetadata answers from    *)
(* the table of well-known tokens without a request, and asks the chain    *)
(* for the mint of any other token.                                        *)
(***************************************************************************)
MaxTokens == 6      \* token accounts an owner has, at most

Analyzer == "solana-account-analyzer"

MintUsdc == "EPjFWdd5AufqSSqeM2qN1xzybapC8G4wEGGkZwyTDt1v"
MintOther == "MintOther"

\* Parsed token accounts: a balance of the well-known USDC mint, and one
\* indivisible unit of a mint that is not in the table.
TokenAccountUsdc ==
    [mint |-> MintUsdc, amount |-> 2000000, uiAmount |-> 2, decimals |-> 6]
TokenAccountNft ==
    [mint |-> MintOther, amount |-> 1, uiAmount |-> 1, decimals |-> 0]

TokenAccountLists == SeqsUpTo({TokenAccountUsdc, TokenAccountNft}, MaxTokens)

AnalyzerInputs ==
    [address : TxAddresses, includeTokens : BOOLEAN, includeNfts : BOOLEAN,
     includeStaking : BOOLEAN]

\* WELL_KNOWN_TOKENS[mintAddress]
isWellKnown(mint) == mint = MintUsdc

WellKnownMetadata == [name |-> "USD Coin", symbol |-> "USDC"]
MintMetadata == [name |-> "Token ${shortMint}", symbol |-> "${shortMint}"]
DefaultMetadata == [name |-> "Unknown Token", symbol |-> "UNKNOWN"]

\* What connection.getParsedAccountInfo(mint) can answer.
MintOutcomes == {"fail", "unparsed", "parsed"}

\* fetchTokenMetadata once its request, if any, is answered.
fetchTokenMetadata(mint, o) ==
    IF isWellKnown(mint) THEN WellKnownMetadata
    ELSE IF o = "parsed" THEN MintMetadata
    ELSE DefaultMetadata

\* The object the callback of batch.map returns for a token account.
tokenOf(tokenAccount, metadata) ==
    [mint |-> tokenAccount.mint,
     symbol |-> metadata.symbol,
     name |-> metadata.name,
     balance |-> tokenAccount.amount,
     uiAmount |-> tokenAccount.uiAmount,
     decimals |-> tokenAccount.decimals,
     isNft |-> tokenAccount.decimals = 0 /\ tokenAccount.uiAmount = 1]

\* tokenAccounts.value.slice(i, length): every remaining account in one batch.
tokenBatchOfAll(tokenAccounts, i) == SubSeq(tokenAccounts, i + 1, Len(tokenAccounts))

\* tokenAccounts.value.slice(i, i + batchSize)
tokenBatchOf(tokenAccounts, i) ==
    SubSeq(tokenAccounts, i + 1,
           IF i + BatchSize < Len(tokenAccounts) THEN i + BatchSize
           ELSE Len(tokenAccounts))

\* batch.map(async ...): a well-known token is ready at once, any other waits
\* for its request.
startedBatch(batch) ==
    [k \in 1..Len(batch) |->
        IF isWellKnown(batch[k].mint)
        THEN Fulfilled(tokenOf(batch[k], WellKnownMetadata))
        ELSE Pending]

\* The getParsedAccountInfo requests behind one batch.
mintCalls(batch) ==
    LET unknown == SelectSeq(batch, LAMBDA t : ~isWellKnown(t.mint))
    IN  [k \in 1..Len(unknown) |->
            [call |-> "getParsedAccountInfo", mint |-> unknown[k].mint]]

\* The for loop from a batch on: while no request of the batch is pending,
\* its results are pushed and the next batch is started.
RECURSIVE tokenLoop(_, _)
tokenLoop(l, calls) ==
    IF \E k \in 1..Len(l.batchResults) : l.batchResults[k] = Pending
    THEN [locals |-> l, calls |-> calls, over |-> FALSE]
    ELSE LET tokens == l.tokens \o fetchedOf(l.batchResults)
             i == l.i + BatchSize
             batch == tokenBatchOf(l.tokenAccounts, i)
         IN  IF i < Len(l.tokenAccounts)
             THEN tokenLoop([l EXCEPT !.i = i, !.tokens = tokens,
                                      !.batchResults = startedBatch(batch)],
                            calls \o mintCalls(batch))
             ELSE [locals |-> [l EXCEPT !.i = i, !.tokens = tokens,
                                        !.batchResults = <<>>],
                   calls |-> calls, over |-> TRUE]

\* nftTokens.map(...) when includeNfts, else [].
nftCollection(includeNfts, tokens) ==
    IF includeNfts
    THEN LET nftTokens == SelectSeq(tokens, LAMBDA t : t.isNft)
         IN  [k \in 1..Len(nftTokens) |->
                [mint |-> nftTokens[k].mint,
                 name |-> IF nftTokens[k].name # "Unknown Token"
                          THEN nftTokens[k].name ELSE "NFT ${mint}...",
                 symbol |-> IF nftTokens[k].symbol # "UNKNOWN"
                            THEN nftTokens[k].symbol ELSE "NFT"]]
    ELSE <<>>

\* The object the handler returns; the values in dollars are kept as the
\* quantities they are computed from.
analyzerResult(c, info, solBalance, tokens, stakeAccounts) ==
    LET regularTokens == SelectSeq(tokens, LAMBDA t : ~t.isNft)
        collection == nftCollection(c.includeNfts, tokens)
    IN  [account |-> [pubkey |-> c.address, lamports |-> solBalance,
                      owner |-> info.owner, executable |-> info.executable,
                      tokens |-> regularTokens],
         stakeAccounts |-> stakeAccounts,
         nftCollection |-> collection,
         portfolioValue |->
            [solLamports |-> solBalance,
             tokenValue |-> SumOf([k \in 1..Len(regularTokens) |->
                                      regularTokens[k].uiAmount]),
             nftValue |-> Len(collection) * 50,
             stakedLamports |-> SumOf([k \in 1..Len(stakeAccounts) |->
                                         stakeAccounts[k].lamports])]]

AnalyzerFailure(cause) ==
    Thrown(Wrapped("Failed to fetch Solana account data: ", cause))

\* The getParsedProgramAccounts request of the staking section.
stakeCalls(c) ==
    IF c.includeStaking
    THEN <<[call |-> "getParsedProgramAccounts", owner |-> c.address]>>
    ELSE <<>>

\* The handler from the end of the token section on: the stake accounts
\* request when asked for, else the result.
AfterTokens(l) ==
    IF context.includeStaking
    THEN Await("getParsedProgramAccounts",
               [call |-> "getParsedProgramAccounts", owner |-> context.address], l)
    ELSE Finish(Returned(analyzerResult(context, l.accountInfo, l.solBalance,
                                        l.tokens, <<>>)), l)

\* solana-account-analyzer: execute up to getAccountInfo.
Analyzer_Execute ==
    /\ pc = "idle"
    /\ \E c \in AnalyzerInputs :
        /\ tool' = Analyzer
        /\ context' = c
        /\ IF ~isValidSolanaAddress(c.address)
           THEN Finish(Thrown(Msg("Invalid Solana address format", <<>>)), NoLocals)
           ELSE Await("getAccountInfo",
                      [call |-> "getAccountInfo", address |-> c.address], NoLocals)
    /\ UNCHANGED <<earlier, callerSeeds, addrVars, schemaVars, concVars>>

\* solana-account-analyzer: getAccountInfo answered, up to getBalance.
Analyzer_OnAccountInfo ==
    /\ pc = "getAccountInfo" /\ tool = Analyzer
    /\ \/ Finish(AnalyzerFailure("fetch failed"), NoLocals)
       \/ Finish(AnalyzerFailure("Account not found on Solana blockchain"), NoLocals)
       \/ Await("getBalance", [call |-> "getBalance", address |-> context.address],
                [accountInfo |-> [owner |-> AddrZero, executable |-> FALSE]])
    /\ UNCHANGED <<tool, context, earlier, callerSeeds, addrVars, schemaVars, concVars>>

\* solana-account-analyzer: getBalance answered, up to the token accounts
\* request, the stake accounts request or the result.
Analyzer_OnBalance ==
    /\ pc = "getBalance" /\ tool = Analyzer
    /\ \/ Finish(AnalyzerFailure("fetch failed"), locals)
       \/ \E b \in {0, 1500} :
            LET l == [solBalance |-> b, tokens |-> <<>>] @@ locals
            IN  IF context.includeTokens
                THEN Await("getParsedTokenAccountsByOwner",
                           [call |-> "getParsedTokenAccountsByOwner",
                            owner |-> context.address], l)
                ELSE AfterTokens(l)
    /\ UNCHANGED <<tool, context, earlier, callerSeeds, addrVars, schemaVars, concVars>>

\* solana-account-analyzer: the token accounts answered; the loop runs up to
\* the first batch that waits for a request.
Analyzer_OnTokenAccounts ==
    /\ pc = "getParsedTokenAccountsByOwner" /\ tool = Analyzer
    /\ \/ AfterTokens(locals)      \* catch: tokens = []
       \/ \E q \in TokenAccountLists :
            LET batch == tokenBatchOf(q, 0)
                run == tokenLoop([tokenAccounts |-> q, i |-> 0,
                                  batchResults |-> startedBatch(batch)] @@ locals,
                                 mintCalls(batch))
            IN  IF run.over
                THEN /\ net' = net \o run.calls \o stakeCalls(context)
                     /\ IF context.includeStaking
                        THEN /\ pc' = "getParsedProgramAccounts"
                             /\ ret' = NoReturn
                             /\ locals' = run.locals
                        ELSE /\ pc' = "done"
                             /\ locals' = run.locals
                             /\ ret' = Returned(analyzerResult(
                                   context, run.locals.accountInfo,
                                   run.locals.solBalance, run.locals.tokens, <<>>))
                ELSE /\ pc' = "getParsedAccountInfo"
                     /\ ret' = NoReturn
                     /\ net' = net \o run.calls
                     /\ locals' = run.locals
    /\ UNCHANGED <<tool, context, earlier, callerSeeds, addrVars, schemaVars, concVars>>

\* solana-account-analyzer: the mint request of one token of the batch
\* answered and its callback ran; after the last one the loop goes on.
Analyzer_OnMetadata ==
    /\ pc = "getParsedAccountInfo" /\ tool = Analyzer
    /\ \E k \in 1..Len(locals.batchResults), o \in MintOutcomes :
        /\ locals.batchResults[k] = Pending
        /\ LET tokenAccount == locals.tokenAccounts[locals.i + k]
               token == tokenOf(tokenAccount, fetchTokenMetadata(tokenAccount.mint, o))
               run == tokenLoop([locals EXCEPT !.batchResults[k] = Fulfilled(token)],
                                <<>>)
           IN  IF run.over
               THEN /\ net' = net \o run.calls \o stakeCalls(context)
                    /\ IF context.includeStaking
                       THEN /\ pc' = "getParsedProgramAccounts"
                            /\ ret' = NoReturn
                            /\ locals' = run.locals
                       ELSE /\ pc' = "done"
                            /\ locals' = run.locals
                            /\ ret' = Returned(analyzerResult(
                                  context, run.locals.accountInfo,
                                  run.locals.solBalance, run.locals.tokens, <<>>))
               ELSE /\ pc' = pc
                    /\ ret' = ret
                    /\ net' = net \o run.calls
                    /\ locals' = run.locals
    /\ UNCHANGED <<tool, context, earlier, callerSeeds, addrVars, schemaVars, concVars>>

\* solana-account-analyzer: the stake accounts answered (a failure leaves
\* the list empty), up to the result.
Analyzer_OnStakeAccounts ==
    /\ pc = "getParsedProgramAccounts" /\ tool = Analyzer
    /\ \E stakeAccounts \in {<<>>, <<[pubkey |-> Addr43, lamports |-> 3000]>>} :
        Finish(Returned(analyzerResult(context, locals.accountInfo,
                                       locals.solBalance, locals.tokens,
                                       stakeAccounts)), locals)
    /\ UNCHANGED <<tool, context, earlier, callerSeeds, addrVars, schemaVars, concVars>>

InitTx ==
    /\ pc = "idle" /\ tool = "none" /\ context = NoContext
    /\ locals = NoLocals /\ net = <<>> /\ ret = NoReturn /\ earlier = NoEarlier
    /\ callerSeeds = {}
    /\ history = MaxSigs /\ parked = NoParked
    /\ AddrIdle /\ SchemaIdle

NextTx ==
    \/ Tx_Execute
    \/ Tx_OnSignatures
    \/ Tx_OnTransaction
    \/ Analyzer_Execute
    \/ Analyzer_OnAccountInfo
    \/ Analyzer_OnBalance
    \/ Analyzer_OnTokenAccounts
    \/ Analyzer_OnMetadata
    \/ Analyzer_OnStakeAccounts
    \/ Complete

SpecTx == InitTx /\ [][NextTx]_vars

TxReturned == pc = "done" /\ tool = TxMonitor /\ ret.kind = "return"

\* The instructions of the transactions in list, one after the other.
RECURSIVE InstructionsOf(_)
InstructionsOf(list) ==
    IF list = <<>> THEN <<>>
    ELSE Head(list).programInstructions \o InstructionsOf(Tail(list))

\* C28: what solana-tx-monitor reports in analytics is about the transactions
\* it returns: their number, the sum of their fees and the count of their
\* program instructions, a program filter and failed detail fetches included.
C28_AnalyticsConsistent ==
    TxReturned =>
        LET returned == ret.value.transactions
            analytics == ret.value.analytics
        IN  /\ analytics.totalTransactions = Len(returned)
            /\ analytics.totalFees =
                  SumOf([j \in 1..Len(returned) |-> returned[j].fee])
            /\ analytics.programInteractions =
                  countInteractions(NoInteractions, InstructionsOf(returned))

\* Requests of a batch that are still unanswered.
PendingIn(batch) == Cardinality({k \in 1..Len(batch) : batch[k] = Pending})

InTxLoop == tool = TxMonitor /\ pc = "getTransaction"
InTokenLoop == tool = Analyzer /\ pc = "getParsedAccountInfo"

AnalyzerReturned == pc = "done" /\ tool = Analyzer /\ ret.kind = "return"

AtMostFiveOutstanding ==
    /\ InTxLoop => PendingIn(locals.batchTransactions) <= 5
    /\ InTokenLoop => PendingIn(locals.batchResults) <= 5

\* A step of a loop that issues requests is the step that answers the last
\* outstanding request of the running batch.
BatchesInTurn ==
    /\ (InTxLoop /\ Len(net') > Len(net)) =>
           PendingIn(locals.batchTransactions) = 1
    /\ (InTokenLoop /\ Len(net') > Len(net)) =>
           PendingIn(locals.batchResults) = 1

Mints(list) == [k \in 1..Len(list) |-> list[k].mint]

InputOrderKept ==
    /\ TxReturned =>
         LET list == ret.value.transactions
         IN  /\ \A a \in 1..Len(list) :
                   /\ list[a].signature \in 1..Len(locals.signatures)
                   /\ "fee" \in DOMAIN list[a]
             /\ \A a, b \in 1..Len(list) :
                   a < b => list[a].signature < list[b].signature
    /\ (AnalyzerReturned /\ "tokenAccounts" \in DOMAIN locals) =>
         /\ Mints(ret.value.account.tokens)
              = Mints(SelectSeq(locals.tokenAccounts, LAMBDA t : t.decimals # 0))
         /\ context.includeNfts =>
              Mints(ret.value.nftCollection)
                = Mints(SelectSeq(locals.tokenAccounts, LAMBDA t : t.decimals = 0))

\* C29: the transaction-detail loop of the transaction monitor and the
\* token-metadata loop of the account analyzer run in batches of 5: at most 5
\* per-item requests are outstanding at any moment, requests of the next batch
\* are issued only by the step that completes the running batch, and the
\* collected results follow the order of the input items, transactions whose
\* fetch failed or answered null being left out.
C29_BatchedByFive ==
    /\ [](AtMostFiveOutstanding /\ InputOrderKept)
    /\ [][BatchesInTurn]_vars

\* Six signatures, hence a second batch, with one transaction of the first
\* batch left out of the result.
C29_Witness ==
    /\ TxReturned
    /\ Len(locals.signatures) = 6
    /\ ~context.programFilter.hasFilter
    /\ Len(ret.value.transactions) = 5
    /\ ret.value.transactions[5].signature = 6

(***************************************************************************)
(* Concurrent invocations.                                                 *)
(*                                                                         *)
(* A handler runs without interruption from one await to the next; at an   *)
(* await another invocation can run.  Everything a handler assigns is a    *)
(* const or let of its own call (the lists and totals of the transaction   *)
(* monitor are declared inside execute), the module-level connection is    *)
(* only read, so an invocation that is not running keeps its frame.        *)
(***************************************************************************)
ConcSigs == 2       \* signatures an address has while two invocations run

RunningFrame ==
    [pc |-> pc, tool |-> tool, context |-> context, locals |-> locals,
     net |-> net, ret |-> ret]

IdleFrame ==
    [pc |-> "idle", tool |-> "none", context |-> NoContext, locals |-> NoLocals,
     net |-> <<>>, ret |-> NoReturn]

\* The running invocation is suspended at its await and the other one is
\* resumed, with totalFees a variable of the module that both handlers add to.
SwitchSharingTotals ==
    /\ parked # NoParked /\ parked # RunningFrame
    /\ parked' = RunningFrame
    /\ pc' = parked.pc /\ tool' = parked.tool /\ context' = parked.context
    /\ net' = parked.net /\ ret' = parked.ret
    /\ locals' = IF "totalFees" \in DOMAIN parked.locals
                    /\ "totalFees" \in DOMAIN locals
                 THEN [parked.locals EXCEPT !.totalFees = locals.totalFees]
                 ELSE parked.locals
    /\ UNCHANGED <<earlier, callerSeeds, history, addrVars, schemaVars>>

\* The running invocation is suspended at its await and the other one is
\* resumed with the context, locals, requests and result it was left with.
Switch ==
    /\ parked # NoParked /\ parked # RunningFrame
    /\ parked' = RunningFrame
    /\ pc' = parked.pc /\ tool' = parked.tool /\ context' = parked.context
    /\ net' = parked.net /\ ret' = parked.ret
    /\ locals' = parked.locals
    /\ UNCHANGED <<earlier, callerSeeds, history, addrVars, schemaVars>>

InitConc ==
    /\ pc = "idle" /\ tool = "none" /\ context = NoContext
    /\ locals = NoLocals /\ net = <<>> /\ ret = NoReturn /\ earlier = NoEarlier
    /\ callerSeeds = {}
    /\ history = ConcSigs /\ parked = IdleFrame
    /\ AddrIdle /\ SchemaIdle

NextConc ==
    \/ Tx_Execute
    \/ Tx_OnSignatures
    \/ Tx_OnTransaction
    \/ FetchOne_Execute
    \/ FetchOne_OnIdl
    \/ FetchOne_OnData
    \/ Complete
    \/ Switch

SpecConc == InitConc /\ [][NextConc]_vars

Frames == {RunningFrame, parked}

FeesOf(list) == SumOf([k \in 1..Len(list) |-> list[k].fee])

\* What the transaction monitor returns, run alone, for the input and the
\* answers of a frame.
TxAlone(f) ==
    IF "transactions" \in DOMAIN f.locals
    THEN txMonitorResult(f.context.address, f.context.programFilter,
                         f.locals.transactions,
                         countInteractions(NoInteractions,
                                           InstructionsOf(f.locals.transactions)),
                         FeesOf(f.locals.transactions))
    ELSE txMonitorResult(f.context.address, [hasFilter |-> FALSE, value |-> <<>>],
                         <<>>, NoInteractions, 0)

\* What fetch-account-data returns, run alone, for the input and the answer
\* of a frame.
FetchOneAlone(f) ==
    IF f.locals.answer.kind = "fail"
    THEN Thrown(Wrapped("Failed to fetch account data: ", f.locals.answer.message))
    ELSE Returned([address |-> f.context.accountAddress,
                   accountType |-> f.context.accountName,
                   data |-> f.locals.answer.data,
                   success |-> TRUE])

\* The requests of a frame are about the addresses of its own input.
OwnRequests(f) ==
    \A k \in 1..Len(f.net) :
        /\ f.tool = TxMonitor /\ f.net[k].call = "getSignaturesForAddress"
              => f.net[k].address = f.context.address
        /\ f.tool = FetchOne /\ f.net[k].call = "fetchIdl"
              => f.net[k].address = f.context.programId
        /\ f.tool = FetchOne /\ f.net[k].call = "account.fetch"
              => f.net[k].address = f.context.accountAddress

ResultAsAlone ==
    \A f \in Frames :
        /\ (f.pc = "done" /\ f.tool = TxMonitor /\ f.ret.kind = "return")
              => f.ret.value = TxAlone(f)
        /\ (f.pc = "done" /\ f.tool = FetchOne /\ "answer" \in DOMAIN f.locals)
              => f.ret = FetchOneAlone(f)
        /\ f.pc # "none" => OwnRequests(f)

\* A step of the running invocation leaves the suspended one as it was.
SuspendedKept ==
    \/ parked' = parked
    \/ parked' = RunningFrame /\ RunningFrame' = parked

\* C26: two invocations interleaved at their awaits are independent: each
\* returns what it returns alone for its own input and the answers it got,
\* its requests are about its own input, and no step of one changes the
\* context, locals, requests or result of the other.
C26_InvocationsIndependent ==
    /\ [](ResultAsAlone)
    /\ [][SuspendedKept]_vars

\* Two invocations of the transaction monitor, both past their first await
\* and both with transactions fetched, one of them finished.
C26_Witness ==
    /\ pc = "done" /\ tool = TxMonitor /\ ret.kind = "return"
    /\ parked.pc = "getTransaction" /\ parked.tool = TxMonitor
    /\ Len(net) = 3 /\ Len(parked.net) = 3
    /\ Len(locals.transactions) = 2
    /\ parked.locals.totalFees > 0

====
